---- MODULE Spec2Model ----
(***************************************************************************)
(* Activity session tracker of ScreenTimeAnalyzerPro/backend:              *)
(*   tracker/realtime_tracker.py  RealtimeTracker                          *)
(*   tracker/idle_detector.py     IdleDetector                             *)
(*   db/database.py               save_usage_with_retry                    *)
(*   main.py                      ConnectionManager                        *)
(* The asyncio tasks are modelled one step per stretch of code between two *)
(* awaits; an await of db_save / ws_broadcast is a point where the other   *)
(* tasks may run.  Time is a discrete clock of Res units per second.       *)
(***************************************************************************)
EXTENDS Integers, Sequences, FiniteSets, TLC

\* ------------------------------------------------------------------ bounds
\* Res: clock units per second.  MaxTime: the last clock value explored.
\* IdleThreshold: idle_threshold_seconds, a parameter of IdleDetector (the
\* tracker passes 180), scaled down to the explored time span.
Res == 2
MaxTime == 12
IdleThreshold == 2
MaxInputs == 1
MaxProbeFailures == 1

\* ------------------------------------------------------- program constants
TickSleep == 1
HeartbeatSleep == 5
MonitorSleep == 5

\* The clock value at construction: time.time() is never 0.
T0 == Res

None == "None"
NoTime == 0 - 1
NoKey == <<None, NoTime>>

\* ------------------------------------------------------------ probe values
\* What get_active_window() may return: <<app_name, window_title>>.
Probes == {<<"chrome.exe", "main.py">>, <<"chrome.exe", "main.py\t">>,
           <<"code.exe", "main.py">>}

\* normalize_app_name on the probe values: lower-case, drop ".exe", look up.
normalize_app_name(raw) ==
    IF raw = None THEN "UNKNOWN"
    ELSE IF raw \in {"chrome.exe", "Chrome.exe", "chrome"} THEN "Google Chrome"
    ELSE IF raw = "code.exe" THEN "Visual Studio Code"
    ELSE raw

\* sanitize_window_title on the probe values: control characters removed.
sanitize_window_title(title) ==
    IF title = None THEN ""
    ELSE IF title = "main.py\t" THEN "main.py"
    ELSE title

\* ------------------------------------------------------------------- state
VARIABLES
    now,                    \* time.time()
    current_app,            \* RealtimeTracker.current_app
    current_window_title,   \* RealtimeTracker.current_window_title
    session_start_time,     \* RealtimeTracker.session_start_time
    last_saved_session,     \* RealtimeTracker.last_saved_session (its key)
    is_tracking,            \* RealtimeTracker.is_tracking
    is_idle,                \* IdleDetector.is_idle
    last_activity_time,     \* IdleDetector.last_activity_time
    running,                \* IdleDetector._running
    track,                  \* the task running _tracking_loop
    mon,                    \* the task running _monitor_idle_state
    stp,                    \* the call of stop_tracking
    dbCalls,                \* the calls of db_save, in order
    events,                 \* the session and idle broadcasts, in order
    log,                    \* closes, opens and resets, in order
    lastTick,               \* the latest tick since the start whose probe returned an app
    openSet,                \* sessions opened and neither closed nor discarded
    inputs,                 \* input events so far
    probeFailures,          \* probes that returned None so far
    script,                 \* the scripted run: what each tick observes
    rt,                     \* one call of save_usage_with_retry
    cm,                     \* ConnectionManager and one call of broadcast
    hb,                     \* the task running _heartbeat_loop
    beats,                  \* the heartbeat broadcasts, in order
    listeners,              \* what starting the pynput listeners does
    starts,                 \* the calls of start_tracking that went on
    idleLog,                \* idle callbacks and input events, in order
    faults,                 \* the exceptions raised inside _tracking_loop
    fn,                     \* one call of a function of tracker/utils.py or of get_current_session
    th,                     \* the listener threads inside _on_activity
    wt,                     \* WindowTracker (ScreenTimeAnalyzerPro-v2) and its tasks
    sap,                    \* RealtimeTracker (screentime-analyzer-pro) and its tasks
    orphans                 \* loops still running whose task start_tracking has replaced

vars == <<now, current_app, current_window_title, session_start_time,
          last_saved_session, is_tracking, is_idle, last_activity_time,
          running, track, mon, stp, dbCalls, events, log, lastTick,
          openSet, inputs, probeFailures, script, rt, cm, hb, beats,
          listeners, starts, idleLog, faults, fn, th, wt, sap, orphans>>

\* The variables of ScreenTimeAnalyzerPro/backend.
baseVars == <<now, current_app, current_window_title, session_start_time,
              last_saved_session, is_tracking, is_idle, last_activity_time,
              running, track, mon, stp, dbCalls, events, log, lastTick,
              openSet, inputs, probeFailures, script, rt, cm, hb, beats,
              listeners, starts, idleLog, faults, fn, th>>

sessionVars == <<current_app, current_window_title, session_start_time>>
idleVars == <<is_idle, last_activity_time>>
envVars == <<inputs, probeFailures>>
auxVars == <<script, rt, cm, hb, beats, listeners, starts, idleLog, faults,
            fn, th, wt, sap, orphans>>
otherVars == <<script, rt, cm, starts, idleLog, faults, fn, th, wt, sap,
              orphans>>
lifeVars == <<script, rt, cm, hb, beats, listeners, starts, faults, fn, th, wt,
             sap, orphans>>
trackVars == <<now, current_app, current_window_title, session_start_time,
               last_saved_session, is_tracking, is_idle, last_activity_time,
               running, track, mon, dbCalls, events, log, lastTick, openSet,
               inputs, probeFailures>>
ghostVars == <<lastTick>>
trackerVars == <<now, current_app, current_window_title, session_start_time,
                 last_saved_session, is_tracking, is_idle, last_activity_time,
                 running, track, mon, stp, dbCalls, events, log, lastTick,
                 openSet, inputs, probeFailures, hb, beats, listeners,
                 starts, idleLog, faults, fn, th, wt, sap, orphans>>

\* WindowTracker.__init__ and IdleDetector.__init__ (ScreenTimeAnalyzerPro-v2),
\* before start(): the fields, the clock, the task running tracking_loop
\* (next: the session to open after the close it is suspended in), the call
\* of stop(), the calls of db_callback and the session broadcasts, and the
\* latest tick.
NoWindowTracker ==
    [is_tracking |-> FALSE, current_app |-> None, current_window |-> None,
     session_start |-> NoTime, last_activity |-> T0, now |-> T0,
     track |-> [pc |-> "none", wake |-> 0,
                next |-> [app |-> None, window |-> None, time |-> NoTime]],
     stop |-> "idle", dbCalls |-> <<>>, events |-> <<>>,
     lastTick |-> [kind |-> "none", at |-> NoTime, idle |-> FALSE,
                   held |-> None, start |-> NoTime],
     raises |-> 0, inputs |-> 0]

\* RealtimeTracker.__init__ (screentime-analyzer-pro), before
\* start_tracking(): the fields, the clock, the task running track_loop
\* (inside broadcast_to_clients: the clients the iteration has left, the
\* size of the set when it began, the client being sent to, the clients
\* whose send failed; next: the session to open after session_end), the
\* calls of stop_tracking and the sessions saved.
NoSap ==
    [is_tracking |-> FALSE, current_app |-> None,
     current_window_title |-> None, start_time |-> NoTime, now |-> T0,
     websocket_clients |-> {},
     track |-> [pc |-> "none", wake |-> 0, left |-> {}, size |-> 0,
                cur |-> None, bad |-> {},
                next |-> [app |-> None, title |-> None]],
     stops |-> 0, saves |-> <<>>]

\* No task has been replaced while it was running; no start_tracking has
\* returned at `if self.is_tracking`.
NoOrphans == [track |-> 0, hb |-> 0, ignored |-> 0]

\* No function of tracker/utils.py has been called.
NoCall == [op |-> "none", arg |-> <<>>, max_length |-> 0, res |-> <<>>]

\* The threads of the mouse listener and of the keyboard listener, outside
\* _on_activity.
Listeners == {"mouse", "keyboard"}
NoThreads == [l \in Listeners |-> [pc |-> "out", was_idle |-> FALSE,
                                   current_time |-> NoTime]]

NoSv == [app |-> None, title |-> None, start |-> NoTime, end |-> NoTime]
Sv(app, title, start, end) ==
    [app |-> app, title |-> title, start |-> start, end |-> end]

\* Python truth value of an Optional[str] and of an Optional[float].
TruthyStr(x) == x # None /\ x # ""
TruthyTime(t) == t # NoTime /\ t # 0

\* Mutant: the test of session_start_time is inverted.
SessionOpen_Inverted ==
    TruthyStr(current_app) /\ ~TruthyTime(session_start_time)

\* `if self.current_app and self.session_start_time`
SessionOpen == TruthyStr(current_app) /\ TruthyTime(session_start_time)

\* int(t): truncation of a timestamp to whole seconds.
IntSec(t) == t \div Res

\* Mutant: the difference of the timestamps is not truncated to seconds.
DurationSec_Untruncated(start, end) == end - start

\* duration_sec = int(end_time - start_time)
DurationSec(start, end) == IntSec(end - start)

\* Mutant: only negative durations are ignored.
TooShort_Negative(start, end) == DurationSec(start, end) < 0

\* `if duration_sec < 1: return`
TooShort(start, end) == DurationSec(start, end) < 1

\* session_key = f"{normalized_app}_{int(start_time)}"
SessionKey(app, start) == <<normalize_app_name(app), IntSec(start)>>

\* Mutant: the key of the last close is not looked at.
IsDuplicate_KeyForgotten(app, start) == FALSE

\* `self.last_saved_session and self.last_saved_session.get("key") == session_key`
IsDuplicate(app, start) ==
    last_saved_session # NoKey /\ last_saved_session = SessionKey(app, start)

\* _save_and_broadcast_session returns before db_save.
SaveSkips(app, start, end) == TooShort(start, end) \/ IsDuplicate(app, start)

SaveOutcome(app, start, end) ==
    IF TooShort(start, end) THEN "short"
    ELSE IF IsDuplicate(app, start) THEN "duplicate"
    ELSE "saved"

DbRecord(sv) ==
    [app |-> normalize_app_name(sv.app),
     window_title |-> sanitize_window_title(sv.title),
     start |-> sv.start, end |-> sv.end,
     duration_sec |-> DurationSec(sv.start, sv.end)]

SessionEnd(sv) ==
    [event |-> "session_end", app |-> normalize_app_name(sv.app),
     start |-> sv.start, at |-> sv.end,
     duration_sec |-> DurationSec(sv.start, sv.end)]

SessionStart(app, time) ==
    [event |-> "session_start", app |-> normalize_app_name(app),
     start |-> time, at |-> time, duration_sec |-> 0]

IdleEvent(idle_duration) ==
    [event |-> "idle", app |-> None, start |-> NoTime, at |-> now,
     duration_sec |-> IntSec(idle_duration)]

\* Entries of the log.  "close": a call of _save_and_broadcast_session by the loop, the idle
\* callback or stop_tracking, with its outcome.  "open": the fields take a
\* new session.  "reset": _handle_idle resets the fields.
CloseRec(by, sv) ==
    [kind |-> "close", by |-> by, app |-> sv.app, start |-> sv.start,
     end |-> sv.end, outcome |-> SaveOutcome(sv.app, sv.start, sv.end),
     idle |-> is_idle]

OpenLogRec(app, start) ==
    [kind |-> "open", by |-> "loop", app |-> app, start |-> start,
     end |-> NoTime, outcome |-> "", idle |-> is_idle]

\* "probe_none": a tick whose probe returned None, with the session held.
ProbeNoneRec ==
    [kind |-> "probe_none", by |-> "loop", app |-> current_app,
     start |-> session_start_time, end |-> now, outcome |-> "",
     idle |-> is_idle]

ResetRec ==
    [kind |-> "reset", by |-> "idle", app |-> current_app,
     start |-> session_start_time, end |-> NoTime, outcome |-> "",
     idle |-> is_idle]

OpenRec(app, start) == [app |-> app, start |-> start]

\* The app of the session a completed idle callback has reset, while no
\* session has been opened since; None otherwise.
AfterIdleApp ==
    LET I == {i \in DOMAIN log : log[i].kind \in {"open", "reset"}} IN
    IF I = {} THEN None
    ELSE LET last == CHOOSE i \in I : \A j \in I : j <= i IN
         IF log[last].kind = "reset" THEN log[last].app ELSE None

\* A tick of the loop whose probe returned `app` and `title`, what
\* AfterIdleApp was and the title held before the tick.
NoTick ==
    [app |-> None, at |-> NoTime, afterIdle |-> None, title |-> None,
     held |-> None]
TickRec(app, title) ==
    [app |-> app, at |-> now, afterIdle |-> AfterIdleApp, title |-> title,
     held |-> current_window_title]

\* get_current_session(): NoSessionView stands for the None it returns.
NoSessionView ==
    [app |-> None, window_title |-> None, elapsed_sec |-> 0,
     start_time |-> NoTime, is_idle |-> FALSE]

get_current_session ==
    IF ~TruthyStr(current_app) \/ ~TruthyTime(session_start_time)
    THEN NoSessionView
    ELSE [app |-> normalize_app_name(current_app),
          window_title |-> sanitize_window_title(current_window_title),
          elapsed_sec |-> DurationSec(session_start_time, now),
          start_time |-> session_start_time,
          is_idle |-> is_idle]

\* ------------------------------------------------------------ construction
\* RealtimeTracker.__init__ and IdleDetector.__init__.
TrackerInit ==
    /\ now = T0
    /\ current_app = None
    /\ current_window_title = None
    /\ session_start_time = NoTime
    /\ last_saved_session = NoKey
    /\ is_tracking = FALSE
    /\ is_idle = FALSE
    /\ last_activity_time = T0
    /\ running = FALSE
    /\ track = [pc |-> "none", wake |-> 0, app |-> None, title |-> None,
                time |-> NoTime, sv |-> NoSv]
    /\ mon = [pc |-> "none", wake |-> 0, dur |-> 0, sv |-> NoSv]
    /\ stp = [pc |-> "idle", sv |-> NoSv]
    /\ dbCalls = <<>>
    /\ events = <<>>
    /\ log = <<>>
    /\ openSet = {}
    /\ lastTick = NoTick
    /\ inputs = 0
    /\ probeFailures = 0
    /\ hb = [pc |-> "none", wake |-> 0]
    /\ beats = <<>>
    /\ starts = 0
    /\ idleLog = <<>>
    /\ faults = <<>>
    /\ fn = NoCall
    /\ th = NoThreads
    /\ wt = NoWindowTracker
    /\ sap = NoSap
    /\ orphans = NoOrphans

\* The pynput listeners start and deliver the input events.
ListenersWork == listeners = "ok"

NoRetry == [pc |-> "none", failures |-> <<>>, attempt |-> 0, tries |-> 0,
            commits |-> <<>>, rollbacks |-> 0, waits |-> <<>>,
            result |-> FALSE, call |-> 0, began |-> 0, summary |-> "ok"]
NoManager == [pc |-> "none", active |-> {}, dead |-> {}, todo |-> {},
              disconnected |-> {}, delivered |-> {}, failed |-> {},
              before |-> {}, after |-> {}, raised |-> FALSE, broadcasts |-> 0,
              cur |-> 0]

Init ==
    /\ TrackerInit
    /\ ListenersWork
    /\ script = <<>>
    /\ rt = NoRetry
    /\ cm = NoManager

\* ------------------------------------------------- _save_and_broadcast_session
\* The call up to its first await: the too-short and duplicate returns, else
\* the key is stored and db_save is called.
SaveCall(sv) ==
    IF SaveSkips(sv.app, sv.start, sv.end)
    THEN UNCHANGED <<last_saved_session, dbCalls>>
    ELSE /\ last_saved_session' = SessionKey(sv.app, sv.start)
         /\ dbCalls' = Append(dbCalls, DbRecord(sv))

\* The session the fields hold, closed at time `end`.
CurrentSv(end) ==
    Sv(current_app, current_window_title, session_start_time, end)

\* Lines 320-340: the fields take the new session, session_start is broadcast.
OpenSession(app, title, time) ==
    /\ current_app' = app
    /\ current_window_title' = title
    /\ session_start_time' = time
    /\ events' = Append(events, SessionStart(app, time))

\* Mutant: _handle_idle leaves the fields as they are.
ResetSession_Forgotten == UNCHANGED sessionVars

\* Lines 272-274: _handle_idle resets the fields.
ResetSession ==
    /\ current_app' = None
    /\ current_window_title' = None
    /\ session_start_time' = NoTime

TrackSleep ==
    [pc |-> "sleep", wake |-> now + TickSleep * Res, app |-> None,
     title |-> None, time |-> NoTime, sv |-> NoSv]

TrackReady == track.pc = "sleep" /\ now >= track.wake

\* ---------------------------------------------------------- _tracking_loop
\* `while self.is_tracking` is false: the loop ends.
TrackExit ==
    /\ TrackReady
    /\ ~is_tracking
    /\ track' = [track EXCEPT !.pc = "exited"]
    /\ UNCHANGED <<auxVars, lastTick, now, sessionVars, last_saved_session, is_tracking,
                   idleVars, running, mon, stp, dbCalls, events, log,
                   openSet, envVars>>

\* Lines 293-295: the user is idle, the tick is skipped.
TrackIdleSkip ==
    /\ TrackReady
    /\ is_tracking
    /\ is_idle
    /\ track' = TrackSleep
    /\ UNCHANGED <<auxVars, lastTick, now, sessionVars, last_saved_session, is_tracking,
                   idleVars, running, mon, stp, dbCalls, events, log,
                   openSet, envVars>>

\* Mutant: a failed probe is taken for "no app in the foreground".
AfterProbeNone_NoApp(app) == None

\* Lines 300-302: sleep and `continue`; current_app is not assigned.
AfterProbeNone(app) == app

\* Lines 298-302: the probe returns None.
TrackProbeNone ==
    /\ TrackReady
    /\ is_tracking
    /\ ~is_idle
    /\ probeFailures < MaxProbeFailures
    /\ probeFailures' = probeFailures + 1
    /\ current_app' = AfterProbeNone(current_app)
    /\ log' = Append(log, ProbeNoneRec)
    /\ track' = TrackSleep
    /\ UNCHANGED <<auxVars, lastTick, now, current_window_title,
                   session_start_time, last_saved_session, is_tracking,
                   idleVars, running, mon, stp, dbCalls, events, openSet,
                   inputs>>

\* Mutant: another window title counts as another app.
AppChanged_OrTitle(app, title) ==
    app # current_app \/ title # current_window_title

\* Line 309: `if app_name != self.current_app`
AppChanged(app, title) == app # current_app

\* Lines 309-340: the probe reports another app than current_app.  The open
\* session, if any, is closed first with end_time = current_time; when that
\* call awaits db_save the loop is suspended with app_name, window_title and
\* current_time as its locals.
TrackSwitch(app, title) ==
    /\ TrackReady
    /\ is_tracking
    /\ ~is_idle
    /\ AppChanged(app, title)
    /\ lastTick' = TickRec(app, title)
    /\ IF SessionOpen
       THEN LET sv == CurrentSv(now) IN
            /\ SaveCall(sv)
            /\ IF SaveSkips(sv.app, sv.start, sv.end)
               THEN /\ OpenSession(app, title, now)
                    /\ openSet' = (openSet \ {OpenRec(sv.app, sv.start)})
                                     \cup {OpenRec(app, now)}
                    /\ log' = log \o <<CloseRec("loop", sv),
                                       OpenLogRec(app, now)>>
                    /\ track' = [track EXCEPT !.pc = "start_ws"]
               ELSE /\ track' = [pc |-> "save_db", wake |-> track.wake,
                                 app |-> app, title |-> title, time |-> now,
                                 sv |-> sv]
                    /\ openSet' = openSet \ {OpenRec(sv.app, sv.start)}
                    /\ log' = Append(log, CloseRec("loop", sv))
                    /\ UNCHANGED <<sessionVars, events>>
       ELSE /\ OpenSession(app, title, now)
            /\ openSet' = openSet \cup {OpenRec(app, now)}
            /\ log' = Append(log, OpenLogRec(app, now))
            /\ track' = [track EXCEPT !.pc = "start_ws"]
            /\ UNCHANGED <<last_saved_session, dbCalls>>
    /\ UNCHANGED <<auxVars, now, is_tracking, idleVars, running, mon, stp,
                   envVars>>

\* Lines 342-346: the same app; the window title is refreshed.
TrackSameApp(app, title) ==
    /\ TrackReady
    /\ is_tracking
    /\ ~is_idle
    /\ ~AppChanged(app, title)
    /\ current_window_title' =
           IF title # current_window_title THEN title ELSE current_window_title
    /\ lastTick' = TickRec(app, title)
    /\ track' = TrackSleep
    /\ UNCHANGED <<auxVars, now, current_app, session_start_time,
                   last_saved_session, is_tracking, idleVars, running, mon,
                   stp, dbCalls, events, log, openSet, envVars>>

\* Lines 230-253 inside the loop: db_save has returned (or raised and was
\* logged); session_end is broadcast.
TrackDbReturn ==
    /\ track.pc = "save_db"
    /\ events' = Append(events, SessionEnd(track.sv))
    /\ track' = [track EXCEPT !.pc = "save_ws"]
    /\ UNCHANGED <<auxVars, lastTick, now, sessionVars, last_saved_session, is_tracking,
                   idleVars, running, mon, stp, dbCalls, log, openSet,
                   envVars>>

\* Mutant: the clock is read again after the close has returned.
SwitchTime_Reread == now

\* The start_time the loop gives the new session: the current_time it took
\* at line 306, before the close.
SwitchTime == track.time

\* Lines 319-340 after the close has returned: the new session is opened.
TrackWsReturn ==
    /\ track.pc = "save_ws"
    /\ OpenSession(track.app, track.title, SwitchTime)
    /\ openSet' = openSet \cup {OpenRec(track.app, SwitchTime)}
    /\ log' = Append(log, OpenLogRec(track.app, SwitchTime))
    /\ track' = [track EXCEPT !.pc = "start_ws", !.sv = NoSv]
    /\ UNCHANGED <<auxVars, lastTick, now, last_saved_session, is_tracking, idleVars,
                   running, mon, stp, dbCalls, envVars>>

\* Line 346: the broadcast of session_start has returned; sleep(1).
TrackStartWsReturn ==
    /\ track.pc = "start_ws"
    /\ track' = TrackSleep
    /\ UNCHANGED <<auxVars, lastTick, now, sessionVars, last_saved_session, is_tracking,
                   idleVars, running, mon, stp, dbCalls, events, log,
                   openSet, envVars>>

\* -------------------------------------------- IdleDetector._monitor_idle_state
MonSleep ==
    [pc |-> "sleep", wake |-> now + MonitorSleep * Res, dur |-> 0, sv |-> NoSv]

MonReady == mon.pc = "sleep" /\ now >= mon.wake /\ running

\* idle_duration >= self.idle_threshold
ThresholdReached(idle_duration) == idle_duration >= IdleThreshold * Res

\* Mutant: the sample does not look at is_idle.
NewIdleEpisode_Repeated(idle_duration) == ThresholdReached(idle_duration)

\* Line 85: `if not self.is_idle and idle_duration >= self.idle_threshold`
NewIdleEpisode(idle_duration) ==
    ThresholdReached(idle_duration) /\ ~is_idle

\* What idleLog keeps of a call of the idle callback and of an input event.
IdleRec(kind) == [kind |-> kind, at |-> now, since |-> last_activity_time]

\* Lines 81-96: the sample finds no new idle episode; sleep(5).
MonitorSample ==
    /\ MonReady
    /\ ~NewIdleEpisode(now - last_activity_time)
    /\ mon' = MonSleep
    /\ UNCHANGED <<auxVars, lastTick, now, sessionVars, last_saved_session, is_tracking,
                   idleVars, running, track, stp, dbCalls, events, log,
                   openSet, envVars>>

\* Lines 85-91 and _handle_idle up to its first await: is_idle is set, the
\* open session is closed with end_time = now; when the close returns at
\* once the fields are reset and the idle event is broadcast.
MonitorIdle ==
    /\ MonReady
    /\ NewIdleEpisode(now - last_activity_time)
    /\ is_idle' = TRUE
    /\ idleLog' = Append(idleLog, IdleRec("idle"))
    /\ LET dur == now - last_activity_time
           sv == CurrentSv(now) IN
       IF SessionOpen
       THEN /\ SaveCall(sv)
            /\ openSet' = openSet \ {OpenRec(sv.app, sv.start)}
            /\ IF SaveSkips(sv.app, sv.start, sv.end)
               THEN /\ ResetSession
                    /\ events' = Append(events, IdleEvent(dur))
                    /\ log' = log \o <<CloseRec("idle", sv), ResetRec>>
                    /\ mon' = [mon EXCEPT !.pc = "idle_ws", !.dur = dur]
               ELSE /\ mon' = [mon EXCEPT !.pc = "save_db", !.dur = dur,
                                          !.sv = sv]
                    /\ log' = Append(log, CloseRec("idle", sv))
                    /\ UNCHANGED <<sessionVars, events>>
       ELSE /\ events' = Append(events, IdleEvent(dur))
            /\ mon' = [mon EXCEPT !.pc = "idle_ws", !.dur = dur]
            /\ UNCHANGED <<sessionVars, last_saved_session, dbCalls, log,
                           openSet>>
    /\ UNCHANGED <<lifeVars, lastTick, now, is_tracking, last_activity_time, running,
                   track, stp, envVars>>

\* _handle_idle inside the close: db_save has returned, session_end is
\* broadcast.
MonDbReturn ==
    /\ mon.pc = "save_db"
    /\ events' = Append(events, SessionEnd(mon.sv))
    /\ mon' = [mon EXCEPT !.pc = "save_ws"]
    /\ UNCHANGED <<auxVars, lastTick, now, sessionVars, last_saved_session, is_tracking,
                   idleVars, running, track, stp, dbCalls, log, openSet,
                   envVars>>

\* Lines 271-284: the close has returned; whatever the fields hold now is
\* reset, the idle event is broadcast.
MonWsReturn ==
    /\ mon.pc = "save_ws"
    /\ ResetSession
    /\ openSet' = openSet \ {OpenRec(current_app, session_start_time)}
    /\ log' = Append(log, ResetRec)
    /\ events' = Append(events, IdleEvent(mon.dur))
    /\ mon' = [mon EXCEPT !.pc = "idle_ws", !.sv = NoSv]
    /\ UNCHANGED <<auxVars, lastTick, now, last_saved_session, is_tracking, idleVars,
                   running, track, stp, dbCalls, envVars>>

\* Line 96: the broadcast of the idle event has returned; sleep(5).
MonIdleWsReturn ==
    /\ mon.pc = "idle_ws"
    /\ mon' = MonSleep
    /\ UNCHANGED <<auxVars, lastTick, now, sessionVars, last_saved_session, is_tracking,
                   idleVars, running, track, stp, dbCalls, events, log,
                   openSet, envVars>>

\* ------------------------------------------------- IdleDetector._on_activity
\* An input event on a listener thread.
OnActivity ==
    /\ running
    /\ ListenersWork
    /\ inputs < MaxInputs
    /\ inputs' = inputs + 1
    /\ last_activity_time' = now
    /\ is_idle' = IF is_idle THEN FALSE ELSE is_idle
    /\ idleLog' = Append(idleLog, IdleRec("input"))
    /\ UNCHANGED <<lifeVars, lastTick, now, sessionVars, last_saved_session, is_tracking,
                   running, track, mon, stp, dbCalls, events, log,
                   openSet, probeFailures>>

\* ---------------------------------------------------------- start_tracking
\* IdleDetector.start goes past its two early returns: pynput is there and
\* the detector is not running yet.
DetectorStarts == listeners # "unavailable" /\ ~running

HbSleep == [pc |-> "sleep", wake |-> now + HeartbeatSleep * Res]

\* Lines 389-405 with IdleDetector.start: the flag is set; the detector sets
\* _running and creates its monitor task, also when a listener failed to
\* start; the tracking loop and the heartbeat loop are created.
StartTracking ==
    /\ ~is_tracking
    /\ is_tracking' = TRUE
    /\ IF DetectorStarts
       THEN /\ running' = TRUE
            /\ mon' = [MonSleep EXCEPT !.wake = now]
       ELSE UNCHANGED <<running, mon>>
    /\ track' = [TrackSleep EXCEPT !.wake = now]
    /\ hb' = HbSleep
    /\ starts' = starts + 1
    /\ lastTick' = NoTick
    /\ UNCHANGED <<script, rt, cm, beats, listeners, idleLog, faults, fn, th,
                   wt, sap, orphans,
                   now,
                   sessionVars, last_saved_session, idleVars, stp, dbCalls,
                   events, log, openSet, envVars>>

\* The first start_tracking of the run (main.py line 150).
FirstStart == track.pc = "none" /\ StartTracking

\* ---------------------------------------------------------- _heartbeat_loop
HbReady == hb.pc = "sleep" /\ now >= hb.wake

\* Line 363: a session is held and is_user_idle() is false.
HbCondition == SessionOpen /\ ~is_idle

\* A close of the session is suspended in db_save or in its broadcast.
ClosingNow(app, start) ==
    \E t \in {track, mon, stp} :
        /\ t.pc \in {"save_db", "save_ws"}
        /\ t.sv.app = app
        /\ t.sv.start = start

\* The heartbeat event of lines 365-378, with what the run knows of the
\* session it reports.
Heartbeat ==
    [app |-> normalize_app_name(current_app), start |-> session_start_time,
     at |-> now, elapsed_sec |-> IntSec(now - session_start_time),
     open |-> OpenRec(current_app, session_start_time) \in openSet,
     closing |-> ClosingNow(current_app, session_start_time),
     idle |-> is_idle, tracking |-> is_tracking]

\* `while self.is_tracking` after an iteration.
HbAgain == IF is_tracking THEN HbSleep ELSE [hb EXCEPT !.pc = "exited"]

\* Mutant: the heartbeat clears the title it has reported.
AfterHeartbeat_Cleared(title) == None

\* Lines 363-378 read current_window_title and assign no field.
AfterHeartbeat(title) == title

\* sleep(5) is over and line 363 holds: the heartbeat is broadcast.
HeartbeatBeat ==
    /\ HbReady
    /\ HbCondition
    /\ beats' = Append(beats, Heartbeat)
    /\ hb' = [hb EXCEPT !.pc = "ws"]
    /\ current_window_title' = AfterHeartbeat(current_window_title)
    /\ UNCHANGED <<otherVars, listeners, stp, now, current_app,
                   session_start_time, last_saved_session, is_tracking,
                   idleVars, running, track, mon, dbCalls, events, log,
                   lastTick, openSet, envVars>>

\* sleep(5) is over and line 363 does not hold: nothing is broadcast.
HeartbeatSkip ==
    /\ HbReady
    /\ ~HbCondition
    /\ hb' = HbAgain
    /\ UNCHANGED <<otherVars, beats, listeners, stp, trackVars>>

\* ws_broadcast has returned (or raised and was logged).
HeartbeatWsReturn ==
    /\ hb.pc = "ws"
    /\ hb' = HbAgain
    /\ UNCHANGED <<otherVars, beats, listeners, stp, trackVars>>

\* ----------------------------------------------------------- stop_tracking
\* Mutant: cancel() leaves the task as it is.
Cancelled_Ignored(task) == task

\* task.cancel(): the task ends at the await it is suspended in.
Cancelled(task) ==
    IF task.pc \in {"none", "exited"} THEN task
    ELSE [task EXCEPT !.pc = "cancelled"]

\* Lines 426-442 with IdleDetector.stop: the detector is stopped, the idle
\* monitor and the tracking loop are cancelled and the call awaits the
\* tracking task; a task that has ended already is not waited for, and the
\* heartbeat task is cancelled at once.
StopFinish ==
    /\ running' = FALSE
    /\ mon' = Cancelled(mon)
    /\ track' = Cancelled(track)
    /\ IF track.pc = "exited"
       THEN /\ hb' = Cancelled(hb)
            /\ stp' = [stp EXCEPT !.pc = "done"]
       ELSE /\ hb' = hb
            /\ stp' = [stp EXCEPT !.pc = "join"]

\* Lines 411-424: the flag is cleared and the open session is closed with
\* end_time = now; the fields are left as they are.
StopCall ==
    /\ stp.pc \in {"idle", "done"}
    /\ is_tracking
    /\ is_tracking' = FALSE
    /\ LET sv == CurrentSv(now) IN
       IF SessionOpen
       THEN /\ SaveCall(sv)
            /\ openSet' = openSet \ {OpenRec(sv.app, sv.start)}
            /\ log' = Append(log, CloseRec("stop", sv))
            /\ IF SaveSkips(sv.app, sv.start, sv.end)
               THEN StopFinish
               ELSE /\ stp' = [pc |-> "save_db", sv |-> sv]
                    /\ UNCHANGED <<running, mon, track, hb>>
       ELSE /\ StopFinish
            /\ UNCHANGED <<last_saved_session, dbCalls, log, openSet>>
    /\ UNCHANGED <<otherVars, beats, listeners, lastTick, now, sessionVars,
                   idleVars, events, envVars>>

\* stop_tracking inside the close: db_save has returned, session_end is
\* broadcast.
StopDbReturn ==
    /\ stp.pc = "save_db"
    /\ events' = Append(events, SessionEnd(stp.sv))
    /\ stp' = [stp EXCEPT !.pc = "save_ws"]
    /\ UNCHANGED <<auxVars, lastTick, now, sessionVars, last_saved_session, is_tracking,
                   idleVars, running, track, mon, dbCalls, log, openSet,
                   envVars>>

\* The close has returned: lines 426-444.
StopWsReturn ==
    /\ stp.pc = "save_ws"
    /\ StopFinish
    /\ UNCHANGED <<otherVars, beats, listeners, lastTick, now, sessionVars,
                   last_saved_session, is_tracking, idleVars, dbCalls, events,
                   log, openSet, envVars>>

\* Lines 433-442: the tracking task has ended; the heartbeat task is
\* cancelled and the call returns.
StopJoin ==
    /\ stp.pc = "join"
    /\ hb' = Cancelled(hb)
    /\ stp' = [stp EXCEPT !.pc = "done"]
    /\ UNCHANGED <<otherVars, beats, listeners, trackVars>>

\* ------------------------------------------------------------------- clock
\* Time passes up to `limit`; a sleeping task wakes when its sleep is over.
TimePasses(limit) ==
    /\ now < limit
    /\ track.pc = "sleep" => now < track.wake
    /\ (mon.pc = "sleep" /\ running) => now < mon.wake
    /\ now' = now + 1
    /\ UNCHANGED <<auxVars, lastTick, sessionVars, last_saved_session, is_tracking,
                   idleVars, running, track, mon, stp, dbCalls, events, log,
                   openSet, envVars>>

\* A cancelled task ends in the loop iteration after the cancel: no time
\* passes first.
Tick == stp.pc # "join" /\ TimePasses(MaxTime)

Next ==
    \/ FirstStart
    \/ TrackExit
    \/ TrackIdleSkip
    \/ TrackProbeNone
    \/ \E p \in Probes : TrackSwitch(p[1], p[2])
    \/ \E p \in Probes : TrackSameApp(p[1], p[2])
    \/ TrackDbReturn
    \/ TrackWsReturn
    \/ TrackStartWsReturn
    \/ MonitorSample
    \/ MonitorIdle
    \/ MonDbReturn
    \/ MonWsReturn
    \/ MonIdleWsReturn
    \/ OnActivity
    \/ StopCall
    \/ StopDbReturn
    \/ StopWsReturn
    \/ StopJoin
    \/ Tick

\* The tracking loop, the idle monitor and stop_tracking. The heartbeat loop
\* writes none of their variables; its steps are part of SpecLifecycle.
Spec == Init /\ [][Next]_vars

\* ===================================================================
\* Properties of the tracker (Spec)
\* ===================================================================
Closes == {i \in DOMAIN log : log[i].kind = "close"}
Opens == {i \in DOMAIN log : log[i].kind = "open"}
SessionEnds == {k \in DOMAIN events : events[k].event = "session_end"}
SessionStarts == {k \in DOMAIN events : events[k].event = "session_start"}

\* Opens i < j with no open between them.
ConsecutiveOpens(i, j) ==
    /\ i \in Opens /\ j \in Opens /\ i < j
    /\ \A k \in Opens : ~(i < k /\ k < j)

\* j is the first open after log entry i.
FirstOpenAfter(i, j) ==
    /\ j \in Opens /\ i < j
    /\ \A k \in Opens : ~(i < k /\ k < j)

\* db_save calls and session_end broadcasts for the session (app, start).
DbCallsOf(app, start) ==
    {k \in DOMAIN dbCalls : /\ dbCalls[k].app = normalize_app_name(app)
                            /\ dbCalls[k].start = start}
SessionEndsOf(app, start) ==
    {k \in SessionEnds : /\ events[k].app = normalize_app_name(app)
                         /\ events[k].start = start}

\* C1: at most one session is open in every reachable state, it is the one
\* the fields hold, and between two consecutive opens the earlier session
\* has been closed (handed to _save_and_broadcast_session) or discarded
\* (reset by _handle_idle).
C1_AtMostOneOpenSession ==
    /\ Cardinality(openSet) <= 1
    /\ \A o \in openSet : o = OpenRec(current_app, session_start_time)
    /\ \A i, j \in Opens :
          ConsecutiveOpens(i, j) =>
             \E k \in DOMAIN log :
                /\ i < k /\ k < j
                /\ log[k].kind \in {"close", "reset"}
                /\ log[k].app = log[i].app
                /\ log[k].start = log[i].start

\* C1 witness: a second session is open after the first one was closed.
C1_Witness ==
    /\ Cardinality(openSet) = 1
    /\ \E i, j \in Opens : ConsecutiveOpens(i, j) /\ log[i].app # log[j].app

\* C2: no session shorter than one second is handed to db_save or
\* broadcast as session_end, whichever path closed it.
C2_ShortSessionNeverSavedNorBroadcast ==
    /\ \A k \in DOMAIN dbCalls :
          /\ dbCalls[k].end - dbCalls[k].start >= Res
          /\ dbCalls[k].duration_sec >= 1
    /\ \A k \in SessionEnds : events[k].at - events[k].start >= Res
    /\ \A i \in Closes :
          log[i].end - log[i].start < Res =>
             /\ log[i].outcome = "short"
             /\ \A k \in DbCallsOf(log[i].app, log[i].start) :
                   dbCalls[k].end # log[i].end
             /\ \A k \in SessionEndsOf(log[i].app, log[i].start) :
                   events[k].at # log[i].end

\* C2 witness: the idle callback and stop_tracking have each closed a
\* session shorter than one second.
C2_Witness ==
    /\ \E i \in Closes :
          log[i].by = "idle" /\ log[i].end - log[i].start < Res
    /\ \E i \in Closes :
          log[i].by = "stop" /\ log[i].end - log[i].start < Res

\* C3: when a tick of the loop observes another app while a session is
\* open, the close it requests carries end_time = the tick's time, the
\* session it opens next starts at that same time, and a close that was
\* persisted was persisted with that end_time.
C3_SwitchHasNoGapNoOverlap ==
    /\ \A i \in Closes :
          log[i].by = "loop" =>
             /\ log[i].outcome = "saved" =>
                   \E k \in DbCallsOf(log[i].app, log[i].start) :
                      dbCalls[k].end = log[i].end
             /\ \A j \in Opens :
                   FirstOpenAfter(i, j) =>
                      /\ log[j].start = log[i].end
                      /\ log[j].app # log[i].app
    /\ track.pc \in {"save_db", "save_ws"} =>
          /\ track.sv.end = lastTick.at
          /\ SwitchTime = lastTick.at

\* C3 witness: the loop has persisted a session on a switch and opened the
\* next one.
C3_Witness ==
    \E i \in Closes : \E j \in Opens :
       /\ log[i].by = "loop" /\ log[i].outcome = "saved"
       /\ FirstOpenAfter(i, j)
       /\ j > i + 1

\* C4: no session is opened in a step taken while is_user_idle() is true.
C4_NoSessionOpenedWhileIdle ==
    \A j \in Opens : ~log[j].idle

\* C5: when the loop and stop_tracking have both requested the close of the
\* same session, then once stop_tracking has returned the session was
\* handed to db_save once and session_end was broadcast once.
C5_LoopAndStopCloseOnce ==
    stp.pc = "done" =>
       \A i, j \in Closes :
          (/\ log[i].by = "loop" /\ log[j].by = "stop"
           /\ log[i].app = log[j].app /\ log[i].start = log[j].start) =>
             /\ Cardinality(DbCallsOf(log[i].app, log[i].start)) = 1
             /\ Cardinality(SessionEndsOf(log[i].app, log[i].start)) = 1

\* C9: a tick that observes app A, taken when a completed idle callback has
\* reset the session of A and no session was opened since, opens a session
\* whose start_time is the tick's time and broadcasts its session_start;
\* until then no session is held, so the pre-idle one cannot be resumed.
C9_FreshSessionAfterIdle ==
    /\ AfterIdleApp # None => ~SessionOpen
    /\ (lastTick.app # None /\ lastTick.afterIdle = lastTick.app) =>
          /\ Opens # {}
          /\ LET j == CHOOSE j \in Opens : \A k \in Opens : k <= j IN
             /\ log[j].app = lastTick.app
             /\ log[j].start = lastTick.at
             /\ \E r \in DOMAIN log :
                   /\ r < j /\ log[r].kind = "reset"
                   /\ log[r].start < log[j].start
          /\ \E k \in SessionStarts :
                /\ events[k].app = normalize_app_name(lastTick.app)
                /\ events[k].start = lastTick.at

\* C9 witness: the idle callback has persisted the session of an app and a
\* later tick has observed the same app.
C9_Witness ==
    /\ lastTick.app # None /\ lastTick.afterIdle = lastTick.app
    /\ \E i \in Closes :
          /\ log[i].by = "idle" /\ log[i].outcome = "saved"
          /\ log[i].app = lastTick.app

\* C10: once stop_tracking has returned, no session is open and
\* get_current_session() returns None.
C10_StopLeavesNoSession ==
    stp.pc = "done" => (~SessionOpen /\ get_current_session = NoSessionView)

\* ===================================================================
\* db/database.py: save_usage_with_retry (SpecRetry)
\* ===================================================================
MaxScript == 4

\* max_retries: int = 3
MaxRetries == 3

\* What one pass through the try block does: it completes, or add / commit /
\* refresh raises.  msg is str(e).
Ok == [raises |-> "none", at |-> "none", msg |-> ""]

LockMessages == {"database is locked", "Database is locked"}
OtherMessages == {"database table is locked"}

RetryOutcomes ==
    {Ok}
    \cup {[raises |-> "OperationalError", at |-> a, msg |-> m] :
             a \in {"commit", "refresh"}, m \in LockMessages \cup OtherMessages}
    \cup {[raises |-> "Exception", at |-> "add", msg |-> "detached instance"]}

\* str.lower() on the messages.
Lower(msg) == IF msg = "Database is locked" THEN "database is locked" ELSE msg

\* `"database is locked" in s` on the lower-cased messages.
HasLockedPhrase(s) == s = "database is locked"

\* Mutant: the message is compared without lower-casing it.
IsLockBusy_CaseSensitive(msg) == HasLockedPhrase(msg)

\* Mutant: every OperationalError is taken for a lock-busy one.
IsLockBusy_Always(msg) == msg = msg

\* `if "database is locked" in str(e).lower()`
IsLockBusy(msg) == HasLockedPhrase(Lower(msg))

\* Mutant: the wait grows by 100 ms per attempt.
Backoff_Linear(attempt) == (attempt + 1) * 100

\* wait_time = (2 ** attempt) * 0.1, in milliseconds.
Backoff(attempt) == (2 ^ attempt) * 100

\* The scripts of outcomes a database may answer the attempts with; past
\* the end of the script every attempt completes.
RetryScripts == UNION {[1..n -> RetryOutcomes] : n \in 0..MaxScript}

RetryOutcome ==
    IF rt.attempt + 1 <= Len(rt.failures) THEN rt.failures[rt.attempt + 1]
    ELSE Ok

\* The call enters the loop with attempt = 0.
InitRetry ==
    /\ TrackerInit
    /\ ListenersWork
    /\ script = <<>>
    /\ cm = NoManager
    /\ rt \in {[NoRetry EXCEPT !.pc = "try", !.failures = f] :
                  f \in RetryScripts}

\* commit() has been reached and has completed on this attempt.
Committed(o) ==
    IF o.at \in {"none", "refresh"} THEN Append(rt.commits, rt.attempt + 1)
    ELSE rt.commits

\* Lines 94-109: add, commit, refresh complete; return True.
RetryCommit ==
    /\ rt.pc = "try"
    /\ RetryOutcome = Ok
    /\ rt' = [rt EXCEPT !.pc = "done", !.tries = @ + 1,
                        !.commits = Committed(Ok), !.result = TRUE]
    /\ UNCHANGED <<trackerVars, script, cm>>

\* Lines 111-122 and 133: a lock-busy OperationalError; rollback, backoff,
\* then the next attempt, or return False after the last one.
RetryLocked ==
    /\ rt.pc = "try"
    /\ RetryOutcome.raises = "OperationalError"
    /\ IsLockBusy(RetryOutcome.msg)
    /\ rt' = [rt EXCEPT
                !.tries = @ + 1,
                !.commits = Committed(RetryOutcome),
                !.rollbacks = @ + 1,
                !.waits = Append(@, Backoff(rt.attempt)),
                !.attempt = IF rt.attempt = MaxRetries - 1 THEN @ ELSE @ + 1,
                !.pc = IF rt.attempt = MaxRetries - 1 THEN "done"
                       ELSE IF rt.attempt + 1 < MaxRetries THEN "try"
                       ELSE "done",
                !.result = FALSE]
    /\ UNCHANGED <<trackerVars, script, cm>>

\* Lines 123-126: another OperationalError; rollback, return False.
RetryOperationalError ==
    /\ rt.pc = "try"
    /\ RetryOutcome.raises = "OperationalError"
    /\ ~IsLockBusy(RetryOutcome.msg)
    /\ rt' = [rt EXCEPT !.pc = "done", !.tries = @ + 1,
                        !.commits = Committed(RetryOutcome),
                        !.rollbacks = @ + 1, !.result = FALSE]
    /\ UNCHANGED <<trackerVars, script, cm>>

\* Lines 128-131: any other exception; rollback, return False.
RetryException ==
    /\ rt.pc = "try"
    /\ RetryOutcome.raises = "Exception"
    /\ rt' = [rt EXCEPT !.pc = "done", !.tries = @ + 1,
                        !.commits = Committed(RetryOutcome),
                        !.rollbacks = @ + 1, !.result = FALSE]
    /\ UNCHANGED <<trackerVars, script, cm>>

NextRetry ==
    \/ RetryCommit
    \/ RetryLocked
    \/ RetryOperationalError
    \/ RetryException

SpecRetry == InitRetry /\ [][NextRetry]_vars

\* A lock-busy failure raised by commit().
LockedFailure(o) ==
    /\ o.raises = "OperationalError"
    /\ o.at = "commit"
    /\ o.msg \in LockMessages

\* The number of lock-busy failures the script starts with.
RECURSIVE LeadingLocked(_)
LeadingLocked(f) ==
    IF f = <<>> \/ ~LockedFailure(Head(f)) THEN 0
    ELSE 1 + LeadingLocked(Tail(f))

\* The script is k lock-busy failures followed by a success.
LockedThenSuccess(f) ==
    LeadingLocked(f) = Len(f) \/ f[LeadingLocked(f) + 1] = Ok

\* C6: for k lock-busy failures followed by a success, the call returns True
\* after k+1 attempts, the last of which commits, when k <= 2; it returns
\* False after exactly 3 attempts when k >= 3; no call makes a 4th attempt.
C6_RetryCommitsOrGivesUp ==
    /\ rt.tries <= MaxRetries
    /\ (rt.pc = "done" /\ LockedThenSuccess(rt.failures)) =>
          LET k == LeadingLocked(rt.failures) IN
          IF k <= 2
          THEN /\ rt.result
               /\ rt.tries = k + 1
               /\ rt.commits = <<k + 1>>
          ELSE /\ ~rt.result
               /\ rt.tries = 3
               /\ rt.commits = <<>>

\* C6 witness: two lock-busy failures, one of them reported in another
\* letter case, and the commit on the third attempt.
C6_Witness ==
    /\ rt.pc = "done"
    /\ LockedThenSuccess(rt.failures)
    /\ LeadingLocked(rt.failures) = 2
    /\ \E i \in 1..2 : rt.failures[i].msg = "Database is locked"
    /\ rt.result /\ rt.tries = 3

\* A failure that is not a lock-busy one: another OperationalError, or
\* another exception.
OtherFailure(o) ==
    \/ o.raises = "Exception"
    \/ o.raises = "OperationalError" /\ o.msg \notin LockMessages

\* C13: a failure that is not lock-busy ends the call on the attempt it
\* happens on, with a rollback and the result False; when it happens on the
\* first attempt the call has made exactly one attempt, one rollback and no
\* backoff wait.
C13_OtherFailureNotRetried ==
    /\ \A i \in 1..Len(rt.failures) :
          (i <= rt.tries /\ OtherFailure(rt.failures[i])) =>
             /\ rt.pc = "done"
             /\ rt.tries = i
             /\ ~rt.result
             /\ rt.rollbacks = i
    /\ (rt.pc = "done" /\ rt.failures # <<>> /\ OtherFailure(rt.failures[1])) =>
          /\ rt.tries = 1
          /\ rt.rollbacks = 1
          /\ rt.waits = <<>>
          /\ ~rt.result

\* C13 witness: the first attempt fails with another OperationalError, the
\* second would have succeeded, and the call has returned.
C13_Witness ==
    /\ rt.pc = "done"
    /\ Len(rt.failures) >= 2
    /\ rt.failures[1].raises = "OperationalError"
    /\ rt.failures[1].msg \in OtherMessages
    /\ rt.failures[2] = Ok
    /\ rt.tries = 1 /\ rt.rollbacks = 1 /\ ~rt.result

\* ===================================================================
\* main.py: ConnectionManager, one broadcast at a time (SpecBroadcast)
\* ===================================================================
MaxSubs == 3
MaxBroadcasts == 2

\* The WebSocket objects.
Subs == 1..MaxSubs

\* ConnectionManager.__init__: active_connections = set().
InitBroadcast ==
    /\ TrackerInit
    /\ ListenersWork
    /\ script = <<>>
    /\ rt = NoRetry
    /\ cm = [NoManager EXCEPT !.pc = "idle"]

\* connect(): accept, then add to the registry.
Connect(s) ==
    /\ cm.pc = "idle"
    /\ s \notin cm.active
    /\ s \notin cm.dead
    /\ cm' = [cm EXCEPT !.active = @ \cup {s}]
    /\ UNCHANGED <<trackerVars, script, rt>>

\* disconnect(): discard from the registry.
Disconnect(s) ==
    /\ cm.pc = "idle"
    /\ s \in cm.active
    /\ cm' = [cm EXCEPT !.active = @ \ {s}]
    /\ UNCHANGED <<trackerVars, script, rt>>

\* The peer of a socket goes away: from now on send_json on it raises.
SubscriberDies(s) ==
    /\ cm.pc \in {"idle", "sending"}
    /\ s \notin cm.dead
    /\ cm' = [cm EXCEPT !.dead = @ \cup {s}]
    /\ UNCHANGED <<trackerVars, script, rt>>

\* Lines 72-75: broadcast() is called; an empty registry returns at once.
BroadcastStart ==
    /\ cm.pc = "idle"
    /\ cm.broadcasts < MaxBroadcasts
    /\ cm' = IF cm.active = {}
             THEN [cm EXCEPT !.broadcasts = @ + 1, !.before = {},
                             !.after = {}, !.delivered = {}, !.failed = {},
                             !.disconnected = {}]
             ELSE [cm EXCEPT !.pc = "sending", !.broadcasts = @ + 1,
                             !.before = cm.active, !.todo = cm.active,
                             !.after = {}, !.delivered = {}, !.failed = {},
                             !.disconnected = {}]
    /\ UNCHANGED <<trackerVars, script, rt>>

\* What send_json raises on a socket whose peer is gone.
SendErrors == {"WebSocketDisconnect", "RuntimeError"}

\* `except Exception`: both are subclasses of Exception.
CaughtByExcept(e) == e \in {"WebSocketDisconnect", "RuntimeError"}

\* Lines 76-81: one pass of the for loop, in the set's iteration order:
\* send_json returns, or raises and the connection is noted; an exception
\* the except clause does not catch ends the broadcast in its caller.
BroadcastSend(s) ==
    /\ cm.pc = "sending"
    /\ s \in cm.todo
    /\ \E e \in SendErrors :
          cm' = IF s \notin cm.dead
                THEN [cm EXCEPT !.todo = @ \ {s}, !.delivered = @ \cup {s}]
                ELSE IF CaughtByExcept(e)
                THEN [cm EXCEPT !.todo = @ \ {s}, !.failed = @ \cup {s},
                                !.disconnected = @ \cup {s}]
                ELSE [cm EXCEPT !.pc = "idle", !.failed = @ \cup {s},
                                !.after = cm.active, !.raised = TRUE]
    /\ UNCHANGED <<trackerVars, script, rt>>

\* Mutant: the noted connections stay registered.
RegistryAfter_Kept(active, disconnected) == active

\* Lines 83-85: disconnect() for every noted connection.
RegistryAfter(active, disconnected) == active \ disconnected

\* The for loop is over: the noted connections are removed, broadcast()
\* returns.
BroadcastFinish ==
    /\ cm.pc = "sending"
    /\ cm.todo = {}
    /\ cm' = [cm EXCEPT !.pc = "idle",
                        !.active = RegistryAfter(cm.active, cm.disconnected),
                        !.after = RegistryAfter(cm.active, cm.disconnected)]
    /\ UNCHANGED <<trackerVars, script, rt>>

NextBroadcast ==
    \/ \E s \in Subs : Connect(s)
    \/ \E s \in Subs : Disconnect(s)
    \/ \E s \in Subs : SubscriberDies(s)
    \/ BroadcastStart
    \/ \E s \in Subs : BroadcastSend(s)
    \/ BroadcastFinish

SpecBroadcast == InitBroadcast /\ [][NextBroadcast]_vars

\* A broadcast has returned and the registry was not touched since.
BroadcastReturned ==
    cm.pc = "idle" /\ cm.broadcasts > 0 /\ cm.active = cm.after

SizeChanged == Cardinality(cm.active) # Cardinality(cm.before)

\* Line 76: the iterator is advanced.  A set whose size has changed raises
\* RuntimeError, outside of any try: broadcast() ends in its caller.
\* Otherwise the next connection's send is awaited (lines 77-78), or the
\* loop is over and the noted connections are removed (lines 83-85).
BroadcastNext ==
    /\ cm.pc = "sending"
    /\ IF SizeChanged
       THEN cm' = [cm EXCEPT !.pc = "idle", !.raised = TRUE,
                             !.after = cm.active, !.todo = {}]
       ELSE IF cm.todo = {}
       THEN cm' = [cm EXCEPT
                     !.pc = "idle",
                     !.active = RegistryAfter(cm.active, cm.disconnected),
                     !.after = RegistryAfter(cm.active, cm.disconnected)]
       ELSE \E s \in cm.todo :
               cm' = [cm EXCEPT !.pc = "in_send", !.cur = s,
                                !.todo = @ \ {s}]
    /\ UNCHANGED <<trackerVars, script, rt>>

\* Lines 78-81: the awaited send returns, or raises and the connection is
\* noted.
BroadcastSendReturn ==
    /\ cm.pc = "in_send"
    /\ cm' = IF cm.cur \in cm.dead
             THEN [cm EXCEPT !.pc = "sending", !.failed = @ \cup {cm.cur},
                             !.disconnected = @ \cup {cm.cur}]
             ELSE [cm EXCEPT !.pc = "sending",
                             !.delivered = @ \cup {cm.cur}]
    /\ UNCHANGED <<trackerVars, script, rt>>

\* connect() while the broadcast is suspended in a send; the iteration may
\* or may not come to the slot of the new connection.
ConnectDuringSend(s) ==
    /\ cm.pc = "in_send"
    /\ s \notin cm.active
    /\ s \notin cm.dead
    /\ \E visited \in BOOLEAN :
          cm' = [cm EXCEPT !.active = @ \cup {s},
                           !.todo = IF visited THEN @ \cup {s} ELSE @]
    /\ UNCHANGED <<trackerVars, script, rt>>

\* disconnect() while the broadcast is suspended in a send.
DisconnectDuringSend(s) ==
    /\ cm.pc = "in_send"
    /\ s \in cm.active
    /\ cm' = [cm EXCEPT !.active = @ \ {s}, !.todo = @ \ {s}]
    /\ UNCHANGED <<trackerVars, script, rt>>

NextBroadcastConcurrent ==
    \/ \E s \in Subs : Connect(s)
    \/ \E s \in Subs : Disconnect(s)
    \/ \E s \in Subs : SubscriberDies(s)
    \/ BroadcastStart
    \/ BroadcastNext
    \/ BroadcastSendReturn
    \/ \E s \in Subs : ConnectDuringSend(s)
    \/ \E s \in Subs : DisconnectDuringSend(s)

SpecBroadcastConcurrent == InitBroadcast /\ [][NextBroadcastConcurrent]_vars

\* C14: with connect and disconnect running while a broadcast is suspended
\* in a send, no broadcast raises, and a broadcast that has returned has
\* sent the message to every subscriber that was registered when it started
\* and was registered still when it returned.
C14_ConcurrentRegistryChangesAreSafe ==
    /\ ~cm.raised
    /\ (cm.pc = "idle" /\ cm.broadcasts > 0) =>
          (cm.before \cap cm.after) \subseteq cm.delivered

\* ===================================================================
\* The tracker on a scripted run (SpecScenario)
\* ===================================================================
\* The tracker is started when it is constructed; tick k is taken at
\* T(k) = T0 + k seconds and observes script[k + 1]: an app, or "idle" when
\* is_user_idle() is true at that tick.  The awaits of db_save and
\* ws_broadcast return within the tick.
A == "chrome.exe"
B == "code.exe"
ClaimScript == <<A, A, B, B, B, "idle", "idle", B>>

\* The scripts with the idle ticks of ClaimScript.
ScenarioScripts ==
    {s \in [1..Len(ClaimScript) -> {A, B, "idle"}] :
        \A i \in 1..Len(ClaimScript) :
           (s[i] = "idle") <=> (ClaimScript[i] = "idle")}

T(k) == T0 + k * Res

\* The index of the tick taken at the current time.
TickIndex == (now - T0) \div Res

ScriptEntry == script[TickIndex + 1]

InitScenario ==
    /\ TrackerInit
    /\ ListenersWork
    /\ rt = NoRetry
    /\ cm = NoManager
    /\ script \in ScenarioScripts

ScenIdleSkip ==
    /\ ScriptEntry = "idle"
    /\ TrackIdleSkip

ScenSwitch ==
    \E p \in Probes : p[1] = ScriptEntry /\ TrackSwitch(p[1], p[2])

ScenSameApp ==
    \E p \in Probes : p[1] = ScriptEntry /\ TrackSameApp(p[1], p[2])

\* A second passes once the tracker is started and no await is pending.
ScenTick ==
    /\ is_tracking
    /\ track.pc = "sleep"
    /\ mon.pc = "sleep"
    /\ TimePasses(T(Len(script) - 1))

NextScenario ==
    \/ StartTracking
    \/ ScenIdleSkip
    \/ ScenSwitch
    \/ ScenSameApp
    \/ TrackDbReturn
    \/ TrackWsReturn
    \/ TrackStartWsReturn
    \/ MonitorSample
    \/ MonitorIdle
    \/ MonDbReturn
    \/ MonWsReturn
    \/ MonIdleWsReturn
    \/ OnActivity
    \/ ScenTick

SpecScenario == InitScenario /\ [][NextScenario]_vars

\* What the scenario states of a broadcast event.
EventView(e) ==
    [event |-> e.event, app |-> e.app, at |-> e.at,
     duration_sec |-> IF e.event = "session_end" THEN e.duration_sec ELSE 0]

EventViews == [k \in DOMAIN events |-> EventView(events[k])]

ExpectedEvents ==
    <<[event |-> "session_start", app |-> "Google Chrome", at |-> T(0),
       duration_sec |-> 0],
      [event |-> "session_end", app |-> "Google Chrome", at |-> T(2),
       duration_sec |-> 2],
      [event |-> "session_start", app |-> "Visual Studio Code", at |-> T(2),
       duration_sec |-> 0],
      [event |-> "session_end", app |-> "Visual Studio Code", at |-> T(5),
       duration_sec |-> 3],
      [event |-> "idle", app |-> None, at |-> T(5), duration_sec |-> 0],
      [event |-> "session_start", app |-> "Visual Studio Code", at |-> T(7),
       duration_sec |-> 0]>>

IsPrefix(s, t) == Len(s) <= Len(t) /\ \A k \in 1..Len(s) : s[k] = t[k]

\* The last tick of the script has been taken and has returned to its sleep.
ScenarioDone ==
    /\ now = T(Len(script) - 1)
    /\ track.pc = "sleep" /\ track.wake > now
    /\ mon.pc = "sleep"

\* C8: on the run of ticks [A, A, B, B, B, idle, idle, B] the session and
\* idle events broadcast so far are always the first ones of
\* session_start(A)@t0, session_end(A, 2)@t2, session_start(B)@t2,
\* session_end(B, 3)@t5, idle@t5, session_start(B)@t7, and they are exactly
\* these six when the eighth tick is over.
C8_ScenarioEventSequence ==
    script = ClaimScript =>
       /\ IsPrefix(EventViews, ExpectedEvents)
       /\ ScenarioDone => EventViews = ExpectedEvents

\* C8 witness: the eighth tick of the claim's run is over and six events
\* were broadcast.
C8_Witness ==
    /\ script = ClaimScript
    /\ ScenarioDone
    /\ Len(events) = 6

\* ===================================================================
\* The life cycle: start, the three loops, stop and start again
\* (SpecLifecycle)
\* ===================================================================
MaxLifeTime == 14
MaxStarts == 2
MaxLifeOpens == 2

\* pynput works; pynput cannot be imported; Listener.start() raises.
ListenerOutcomes == {"ok", "unavailable", "failed"}

LifeProbes == {<<"chrome.exe", "main.py">>, <<"code.exe", "main.py">>}

InitLifecycle ==
    /\ TrackerInit
    /\ listeners \in ListenerOutcomes
    /\ script = <<>>
    /\ rt = NoRetry
    /\ cm = NoManager

\* No loop is suspended in db_save or in ws_broadcast.
LoopsQuiet ==
    /\ track.pc \in {"none", "sleep", "exited", "cancelled"}
    /\ mon.pc \in {"none", "sleep", "cancelled"}
    /\ hb.pc \in {"none", "sleep", "exited", "cancelled"}

\* start_tracking: main.py line 150 calls it right after the construction;
\* a later call is made while no stop_tracking is in progress.
LifeStart ==
    /\ starts < MaxStarts
    /\ IF starts = 0 THEN now = T0 ELSE stp.pc = "done"
    /\ StartTracking

\* The foreground app changes a bounded number of times.
LifeSwitch(app, title) ==
    /\ LoopsQuiet
    /\ Cardinality({i \in DOMAIN log : log[i].kind = "open"}) < MaxLifeOpens
    /\ TrackSwitch(app, title)

\* A sleeping heartbeat loop wakes when its sleep is over.
HbNotDue == hb.pc = "sleep" => now < hb.wake

\* Time passes while the tracker runs and no await is pending: a stopped
\* tracker is started again at once.
LifeTick ==
    /\ is_tracking
    /\ stp.pc \in {"idle", "done"}
    /\ HbNotDue
    /\ TimePasses(MaxLifeTime)

\* The awaits of a loop return before another loop, an input event or the
\* clock steps; stop_tracking may be suspended meanwhile.
NextLifecycle ==
    \/ LoopsQuiet /\ LifeStart
    \/ LoopsQuiet /\ TrackExit
    \/ LoopsQuiet /\ TrackIdleSkip
    \/ LoopsQuiet /\ TrackProbeNone
    \/ \E p \in LifeProbes : LifeSwitch(p[1], p[2])
    \/ \E p \in LifeProbes : LoopsQuiet /\ TrackSameApp(p[1], p[2])
    \/ LoopsQuiet /\ MonitorSample
    \/ LoopsQuiet /\ MonitorIdle
    \/ LoopsQuiet /\ OnActivity
    \/ LoopsQuiet /\ StopCall
    \/ LoopsQuiet /\ StopDbReturn
    \/ LoopsQuiet /\ StopWsReturn
    \/ LoopsQuiet /\ StopJoin
    \/ LoopsQuiet /\ HeartbeatBeat
    \/ LoopsQuiet /\ HeartbeatSkip
    \/ LoopsQuiet /\ LifeTick
    \/ TrackDbReturn
    \/ TrackWsReturn
    \/ TrackStartWsReturn
    \/ MonDbReturn
    \/ MonWsReturn
    \/ MonIdleWsReturn
    \/ HeartbeatWsReturn

SpecLifecycle == InitLifecycle /\ [][NextLifecycle]_vars

\* ===================================================================
\* Properties of the life cycle (SpecLifecycle)
\* ===================================================================

\* C11: a heartbeat is broadcast only while a session is open (opened and
\* not yet closed or discarded; a close that is still in progress counts as
\* open) and the user is not idle.
C11_HeartbeatOnlyForOpenSession ==
    \A k \in DOMAIN beats :
        /\ beats[k].open \/ beats[k].closing
        /\ ~beats[k].idle

\* `return self.is_idle`
is_user_idle == is_idle

\* C17: when the listeners cannot be started (pynput unavailable, or
\* Listener.start() raises), is_user_idle() is false in every later state.
C17_NoListenersNeverIdle ==
    listeners \in {"unavailable", "failed"} => ~is_user_idle

\* C20: after stop_tracking and a new start_tracking, once a tick has
\* observed an app and the loop is back in its sleep, a session of that app
\* is open (opened and not closed since), also when the app is the one of
\* before the stop; the user is not idle and no stop is under way.
C20_RestartOpensNewSession ==
    (/\ starts >= 2
     /\ is_tracking
     /\ lastTick.app # None
     /\ track.pc = "sleep"
     /\ ~is_idle) =>
        \E o \in openSet : o.app = lastTick.app

\* ===================================================================
\* The idle detector over several samples (SpecIdle)
\* ===================================================================
MaxIdleTime == 22

\* One app stays in the foreground.
IdleProbe == <<"chrome.exe", "main.py">>

IdleTick == TimePasses(MaxIdleTime)

NextIdle ==
    \/ FirstStart
    \/ TrackIdleSkip
    \/ TrackProbeNone
    \/ TrackSwitch(IdleProbe[1], IdleProbe[2])
    \/ TrackSameApp(IdleProbe[1], IdleProbe[2])
    \/ TrackStartWsReturn
    \/ MonitorSample
    \/ MonitorIdle
    \/ MonDbReturn
    \/ MonWsReturn
    \/ MonIdleWsReturn
    \/ OnActivity
    \/ IdleTick

\* The detector with its monitor and the tracking loop, never stopped.
SpecIdle == Init /\ [][NextIdle]_vars

IdleCalls == {i \in DOMAIN idleLog : idleLog[i].kind = "idle"}
InputEvents == {i \in DOMAIN idleLog : idleLog[i].kind = "input"}

\* C12: the idle callback is called once per idle episode: every call is
\* made when the inactivity has reached the threshold, two calls always have
\* an input event between them, and the episode a call has begun lasts (the
\* detector reads as idle) until the next input event.
C12_IdleCallbackOncePerEpisode ==
    /\ \A i \in IdleCalls :
          ThresholdReached(idleLog[i].at - idleLog[i].since)
    /\ \A i, j \in IdleCalls :
          i < j => \E k \in InputEvents : i < k /\ k < j
    /\ is_idle <=> (idleLog # <<>> /\ idleLog[Len(idleLog)].kind = "idle")

\* Two idle episodes: a call, an input event, and a second call.
C12_Witness ==
    /\ Cardinality(IdleCalls) = 2
    /\ is_idle

\* ===================================================================
\* One run of the tracker from its start to the end of stop_tracking
\* (SpecStop)
\* ===================================================================
NextStop ==
    \/ LoopsQuiet /\ FirstStart
    \/ LoopsQuiet /\ TrackExit
    \/ LoopsQuiet /\ TrackIdleSkip
    \/ LoopsQuiet /\ TrackProbeNone
    \/ \E p \in LifeProbes : LifeSwitch(p[1], p[2])
    \/ \E p \in LifeProbes : LoopsQuiet /\ TrackSameApp(p[1], p[2])
    \/ LoopsQuiet /\ MonitorSample
    \/ LoopsQuiet /\ MonitorIdle
    \/ LoopsQuiet /\ OnActivity
    \/ LoopsQuiet /\ StopCall
    \/ LoopsQuiet /\ StopDbReturn
    \/ LoopsQuiet /\ StopWsReturn
    \/ LoopsQuiet /\ StopJoin
    \/ LoopsQuiet /\ HeartbeatBeat
    \/ LoopsQuiet /\ HeartbeatSkip
    \/ LoopsQuiet /\ LifeTick
    \/ TrackDbReturn
    \/ TrackWsReturn
    \/ TrackStartWsReturn
    \/ MonDbReturn
    \/ MonWsReturn
    \/ MonIdleWsReturn
    \/ HeartbeatWsReturn

\* The event loop keeps running: a coroutine that can step does step, and
\* db_save and ws_broadcast return.
SpecStop == Init /\ [][NextStop]_vars /\ WF_vars(NextStop)

Stopped == starts > 0 /\ ~is_tracking

TrackEnded == track.pc \in {"exited", "cancelled"}
MonitorEnded == mon.pc = "cancelled"
HeartbeatEnded == hb.pc \in {"exited", "cancelled"}

\* The session that was open at the stop is closed, and its record was
\* handed to db_save unless the close was too short or a duplicate.
FinalCloseDone ==
    /\ openSet = {}
    /\ \A i \in Closes :
          (log[i].by = "stop" /\ log[i].outcome = "saved") =>
             \E k \in DOMAIN dbCalls :
                /\ dbCalls[k].start = log[i].start
                /\ dbCalls[k].end = log[i].end

\* C16: after stop_tracking is called the tracking loop, the idle monitor
\* and the heartbeat loop all end, and when the first of them ends the open
\* session has been closed and handed to the database.
C16_StopEndsLoopsAfterFinalClose ==
    /\ [](Stopped => <>(TrackEnded /\ MonitorEnded /\ HeartbeatEnded))
    /\ []((Stopped /\ (TrackEnded \/ MonitorEnded \/ HeartbeatEnded)) =>
             FinalCloseDone)

\* stop_tracking has closed and saved an open session and the loops ended.
C16_Witness ==
    /\ Stopped
    /\ TrackEnded /\ MonitorEnded /\ HeartbeatEnded
    /\ \E i \in Closes : log[i].by = "stop" /\ log[i].outcome = "saved"

\* ===================================================================
\* The tracker with the database write of save_usage_callback and with
\* callbacks that raise (SpecPersist)
\* ===================================================================
MaxFaults == 2

quietVars == <<script, rt, cm, hb, beats, listeners, starts, idleLog, fn,
              th, wt, sap, orphans>>

Locked ==
    [raises |-> "OperationalError", at |-> "commit",
     msg |-> "database is locked"]
Broken == [raises |-> "Exception", at |-> "add", msg |-> "detached instance"]

\* The database answers a write with lock-busy failures, or with one other
\* failure.
PersistScripts ==
    {[i \in 1..n |-> Locked] : n \in 0..MaxRetries} \cup {<<Broken>>}

\* db_save has been called and save_usage_with_retry is not entered yet.
WritePending == rt.call < Len(dbCalls)

\* save_usage_callback calls save_usage_with_retry without an await: until
\* it returns, the thread of the event loop runs no other coroutine.
EventLoopBusy == WritePending \/ (rt.call > 0 /\ rt.pc = "try")
EventLoopFree == ~EventLoopBusy

\* main.py lines 93-104: the write begins; the database and the summary
\* broadcast behave in one of the ways above.
PersistBegin ==
    /\ WritePending
    /\ rt.pc \in {"none", "done"}
    /\ \E f \in PersistScripts, b \in {"ok", "raises"} :
          /\ b = "raises" => Len(faults) < MaxFaults
          /\ rt' = [NoRetry EXCEPT !.pc = "try", !.failures = f,
                                   !.call = Len(dbCalls), !.began = now,
                                   !.summary = b]
    /\ UNCHANGED <<trackerVars, script, cm>>

RECURSIVE SumSeq(_)
SumSeq(q) == IF q = <<>> THEN 0 ELSE Head(q) + SumSeq(Tail(q))

\* time.sleep(wait_time) between two attempts: the clock goes on while the
\* thread of the event loop sleeps; the waits so far cover that many clock
\* units at most.
BlockedSleep ==
    /\ rt.call > 0
    /\ rt.pc = "try"
    /\ rt.waits # <<>>
    /\ now < MaxLifeTime
    /\ (now - rt.began) * 1000 < SumSeq(rt.waits) * Res
    /\ now' = now + 1
    /\ UNCHANGED <<auxVars, lastTick, sessionVars, last_saved_session,
                   is_tracking, idleVars, running, track, mon, stp, dbCalls,
                   events, log, openSet, envVars>>

\* What the awaiting close path sees of save_usage_callback (main.py lines
\* 93-120): the result of save_usage_with_retry is neither returned nor
\* raised; an exception of the summary broadcast after a successful write
\* passes through the try/finally.
CallbackOutcome ==
    IF rt.result /\ rt.summary = "raises" THEN "raised" ELSE "returned"

\* Lines 229-240: "Saved session" after db_save returned, "Failed to save
\* session" in the except clause.
TrackerSaveLog(outcome) ==
    IF outcome = "raised" THEN "error: Failed to save session"
    ELSE "info: Saved session"

\* What db_save and ws_broadcast raise: the RuntimeError of a registry that
\* changed during the broadcast.
LoopErrors == {"RuntimeError"}

\* Mutant: the except clauses catch OSError only.
LoopCatches_Narrow(e) == e = "OSError"

\* `except Exception` (lines 239, 254, 339, 348): both are subclasses.
LoopCatches(e) == e \in {"RuntimeError", "OSError"}

Fault(kind, e) == [kind |-> kind, error |-> e, at |-> now]

\* An exception no except clause of the loop catches ends the task.
Crashed == [track EXCEPT !.pc = "crashed"]

\* Lines 239-253 inside the loop: db_save has raised; the error is logged
\* and session_end is broadcast.
TrackDbRaises(e) ==
    /\ track.pc = "save_db"
    /\ Len(faults) < MaxFaults
    /\ faults' = Append(faults, Fault("db_save", e))
    /\ IF LoopCatches(e)
       THEN /\ events' = Append(events, SessionEnd(track.sv))
            /\ track' = [track EXCEPT !.pc = "save_ws"]
       ELSE /\ track' = Crashed
            /\ UNCHANGED events
    /\ UNCHANGED <<quietVars, lastTick, now, sessionVars, last_saved_session,
                   is_tracking, idleVars, running, mon, stp, dbCalls, log,
                   openSet, envVars>>

\* Lines 254-255 and 319-340: the broadcast of session_end has raised; the
\* error is logged and the new session is opened.
TrackWsRaises(e) ==
    /\ track.pc = "save_ws"
    /\ Len(faults) < MaxFaults
    /\ faults' = Append(faults, Fault("session_end", e))
    /\ IF LoopCatches(e)
       THEN /\ OpenSession(track.app, track.title, SwitchTime)
            /\ openSet' = openSet \cup {OpenRec(track.app, SwitchTime)}
            /\ log' = Append(log, OpenLogRec(track.app, SwitchTime))
            /\ track' = [track EXCEPT !.pc = "start_ws", !.sv = NoSv]
       ELSE /\ track' = Crashed
            /\ UNCHANGED <<sessionVars, events, openSet, log>>
    /\ UNCHANGED <<quietVars, lastTick, now, last_saved_session, is_tracking,
                   idleVars, running, mon, stp, dbCalls, envVars>>

\* Lines 339-346: the broadcast of session_start has raised; the error is
\* logged; sleep(1).
TrackStartWsRaises(e) ==
    /\ track.pc = "start_ws"
    /\ Len(faults) < MaxFaults
    /\ faults' = Append(faults, Fault("session_start", e))
    /\ track' = IF LoopCatches(e) THEN TrackSleep ELSE Crashed
    /\ UNCHANGED <<quietVars, lastTick, now, sessionVars, last_saved_session,
                   is_tracking, idleVars, running, mon, stp, dbCalls, events,
                   log, openSet, envVars>>

\* The coroutines step while the thread of the event loop is not inside
\* the database write.
NextPersist ==
    \/ PersistBegin
    \/ RetryCommit
    \/ RetryLocked
    \/ RetryException
    \/ BlockedSleep
    \/ EventLoopFree /\ LoopsQuiet /\ FirstStart
    \/ EventLoopFree /\ LoopsQuiet /\ TrackIdleSkip
    \/ EventLoopFree /\ LoopsQuiet /\ TrackProbeNone
    \/ \E p \in LifeProbes : EventLoopFree /\ LifeSwitch(p[1], p[2])
    \/ \E p \in LifeProbes :
          EventLoopFree /\ LoopsQuiet /\ TrackSameApp(p[1], p[2])
    \/ EventLoopFree /\ LoopsQuiet /\ MonitorSample
    \/ EventLoopFree /\ LoopsQuiet /\ MonitorIdle
    \/ EventLoopFree /\ LoopsQuiet /\ OnActivity
    \/ EventLoopFree /\ LoopsQuiet /\ HeartbeatBeat
    \/ EventLoopFree /\ LoopsQuiet /\ HeartbeatSkip
    \/ EventLoopFree /\ LoopsQuiet /\ LifeTick
    \/ EventLoopFree /\ CallbackOutcome = "returned" /\ TrackDbReturn
    \/ \E e \in LoopErrors :
          EventLoopFree /\ CallbackOutcome = "raised" /\ TrackDbRaises(e)
    \/ EventLoopFree /\ TrackWsReturn
    \/ \E e \in LoopErrors : EventLoopFree /\ TrackWsRaises(e)
    \/ EventLoopFree /\ TrackStartWsReturn
    \/ \E e \in LoopErrors : EventLoopFree /\ TrackStartWsRaises(e)
    \/ EventLoopFree /\ MonDbReturn
    \/ EventLoopFree /\ MonWsReturn
    \/ EventLoopFree /\ MonIdleWsReturn
    \/ EventLoopFree /\ HeartbeatWsReturn

SpecPersist == Init /\ [][NextPersist]_vars

\* save_usage_with_retry is inside time.sleep between two attempts.
InBackoff == rt.call > 0 /\ rt.pc = "try" /\ rt.waits # <<>>

\* The sleep of a loop ran out after the write began, and the loop has not
\* resumed.
DueSince(task) == task.pc = "sleep" /\ rt.began < task.wake /\ task.wake <= now

\* C15: a database write does not stall the loops: during a backoff wait
\* of the write no loop is kept from a wake-up that is due.
C15_BackoffStallsNoLoop ==
    InBackoff =>
        ~(DueSince(track) \/ (running /\ DueSince(mon)) \/ DueSince(hb))

\* C18: when the retries are exhausted, the close path of the tracker is
\* told so and logs the failure.
C18_ExhaustionLoggedByTracker ==
    (rt.call > 0 /\ rt.pc = "done" /\ ~rt.result
        /\ Len(rt.waits) = MaxRetries) =>
        TrackerSaveLog(CallbackOutcome) = "error: Failed to save session"

\* ===================================================================
\* The tracking loop with a probe that fails and callbacks that raise
\* (SpecFaults)
\* ===================================================================
NextFaults ==
    \/ LoopsQuiet /\ FirstStart
    \/ LoopsQuiet /\ TrackIdleSkip
    \/ LoopsQuiet /\ TrackProbeNone
    \/ \E p \in LifeProbes : LifeSwitch(p[1], p[2])
    \/ \E p \in LifeProbes : LoopsQuiet /\ TrackSameApp(p[1], p[2])
    \/ LoopsQuiet /\ MonitorSample
    \/ LoopsQuiet /\ MonitorIdle
    \/ LoopsQuiet /\ OnActivity
    \/ LoopsQuiet /\ LifeTick
    \/ TrackDbReturn
    \/ \E e \in LoopErrors : TrackDbRaises(e)
    \/ TrackWsReturn
    \/ \E e \in LoopErrors : TrackWsRaises(e)
    \/ TrackStartWsReturn
    \/ \E e \in LoopErrors : TrackStartWsRaises(e)
    \/ MonDbReturn
    \/ MonWsReturn
    \/ MonIdleWsReturn

\* The event loop keeps running: db_save and ws_broadcast return or raise.
SpecFaults == Init /\ [][NextFaults]_vars /\ WF_vars(NextFaults)

\* C19: no failure of the probe, of db_save or of a broadcast ends the
\* tracking loop: while is_tracking holds the task is alive, and it comes
\* back to the sleep that precedes its next tick again and again.
C19_LoopSurvivesFailures ==
    /\ []((starts > 0 /\ is_tracking) =>
            track.pc \in {"sleep", "save_db", "save_ws", "start_ws"})
    /\ []<>(starts = 0 \/ track.pc = "sleep")

\* The probe has failed, db_save and both broadcasts have raised, and a
\* later tick has observed an app.
C19_Witness ==
    /\ is_tracking
    /\ probeFailures > 0
    /\ \E i \in DOMAIN faults :
          faults[i].kind = "db_save" /\ faults[i].at < lastTick.at
    /\ \E i \in DOMAIN faults :
          faults[i].kind \in {"session_end", "session_start"}
          /\ faults[i].at < lastTick.at

\* ===================================================================
\* tracker/utils.py: strings are sequences of characters (SpecUtils)
\* ===================================================================
MaxNameLen == 3
MaxTitleLen == 4
MaxSeconds == 7325

LowerCase ==
    <<"a", "b", "c", "d", "e", "f", "g", "h", "i", "j", "k", "l", "m", "n",
      "o", "p", "q", "r", "s", "t", "u", "v", "w", "x", "y", "z">>
UpperCase ==
    <<"A", "B", "C", "D", "E", "F", "G", "H", "I", "J", "K", "L", "M", "N",
      "O", "P", "Q", "R", "S", "T", "U", "V", "W", "X", "Y", "Z">>
DigitChars == <<"0", "1", "2", "3", "4", "5", "6", "7", "8", "9">>

Range(q) == {q[i] : i \in DOMAIN q}
IndexIn(q, c) == CHOOSE i \in DOMAIN q : q[i] = c

\* str.lower and str.upper on one character.
lower_char(c) ==
    IF c \in Range(UpperCase) THEN LowerCase[IndexIn(UpperCase, c)] ELSE c
upper_char(c) ==
    IF c \in Range(LowerCase) THEN UpperCase[IndexIn(LowerCase, c)] ELSE c
lower(s) == [i \in DOMAIN s |-> lower_char(s[i])]

\* The characters str.strip, str.split and \s take for white space.
Whitespace == {" ", "\t", "\n", "\r"}

\* The characters of [\x00-\x1f\x7f-\x9f] (line 170).
ControlChars == {"\t", "\n", "\r"}

\* None as an argument; `not x` holds of None and of the empty string.
NoneArg == <<None>>
Falsy(x) == x = NoneArg \/ x = <<>>

RECURSIVE lstrip(_)
lstrip(s) ==
    IF s # <<>> /\ Head(s) \in Whitespace THEN lstrip(Tail(s)) ELSE s

RECURSIVE rstrip(_)
rstrip(s) ==
    IF s # <<>> /\ s[Len(s)] \in Whitespace
    THEN rstrip(SubSeq(s, 1, Len(s) - 1))
    ELSE s

strip(s) == rstrip(lstrip(s))

endswith(s, suffix) ==
    /\ Len(s) >= Len(suffix)
    /\ SubSeq(s, Len(s) - Len(suffix) + 1, Len(s)) = suffix

\* s[:n], also for a negative n.
Slice(s, n) ==
    IF n >= 0 THEN SubSeq(s, 1, IF n < Len(s) THEN n ELSE Len(s))
    ELSE SubSeq(s, 1, IF Len(s) + n > 0 THEN Len(s) + n ELSE 0)

Exe == <<".", "e", "x", "e">>
Unknown == <<"U", "N", "K", "N", "O", "W", "N">>
Dots == <<".", ".", ".">>

\* APP_NAME_MAPPING (lines 9-54): <<key, display name>>.
APP_NAME_MAPPING ==
    {<<<<"c", "h", "r", "o", "m", "e", ".", "e", "x", "e">>,
       <<"G", "o", "o", "g", "l", "e", " ", "C", "h", "r", "o", "m", "e">>>>,
     <<<<"c", "h", "r", "o", "m", "e">>,
       <<"G", "o", "o", "g", "l", "e", " ", "C", "h", "r", "o", "m", "e">>>>,
     <<<<"f", "i", "r", "e", "f", "o", "x", ".", "e", "x", "e">>,
       <<"F", "i", "r", "e", "f", "o", "x">>>>,
     <<<<"f", "i", "r", "e", "f", "o", "x">>,
       <<"F", "i", "r", "e", "f", "o", "x">>>>,
     <<<<"m", "s", "e", "d", "g", "e", ".", "e", "x", "e">>,
       <<"M", "i", "c", "r", "o", "s", "o", "f", "t", " ", "E", "d", "g",
         "e">>>>,
     <<<<"m", "s", "e", "d", "g", "e">>,
       <<"M", "i", "c", "r", "o", "s", "o", "f", "t", " ", "E", "d", "g",
         "e">>>>,
     <<<<"b", "r", "a", "v", "e", ".", "e", "x", "e">>,
       <<"B", "r", "a", "v", "e", " ", "B", "r", "o", "w", "s", "e", "r">>>>,
     <<<<"b", "r", "a", "v", "e">>,
       <<"B", "r", "a", "v", "e", " ", "B", "r", "o", "w", "s", "e", "r">>>>,
     <<<<"c", "o", "d", "e", ".", "e", "x", "e">>,
       <<"V", "i", "s", "u", "a", "l", " ", "S", "t", "u", "d", "i", "o",
         " ", "C", "o", "d", "e">>>>,
     <<<<"c", "o", "d", "e">>,
       <<"V", "i", "s", "u", "a", "l", " ", "S", "t", "u", "d", "i", "o",
         " ", "C", "o", "d", "e">>>>,
     <<<<"s", "l", "a", "c", "k", ".", "e", "x", "e">>,
       <<"S", "l", "a", "c", "k">>>>,
     <<<<"s", "l", "a", "c", "k">>,
       <<"S", "l", "a", "c", "k">>>>,
     <<<<"t", "e", "a", "m", "s", ".", "e", "x", "e">>,
       <<"M", "i", "c", "r", "o", "s", "o", "f", "t", " ", "T", "e", "a",
         "m", "s">>>>,
     <<<<"t", "e", "a", "m", "s">>,
       <<"M", "i", "c", "r", "o", "s", "o", "f", "t", " ", "T", "e", "a",
         "m", "s">>>>,
     <<<<"s", "p", "o", "t", "i", "f", "y", ".", "e", "x", "e">>,
       <<"S", "p", "o", "t", "i", "f", "y">>>>,
     <<<<"s", "p", "o", "t", "i", "f", "y">>,
       <<"S", "p", "o", "t", "i", "f", "y">>>>,
     <<<<"v", "l", "c", ".", "e", "x", "e">>,
       <<"V", "L", "C", " ", "M", "e", "d", "i", "a", " ", "P", "l", "a",
         "y", "e", "r">>>>,
     <<<<"v", "l", "c">>,
       <<"V", "L", "C", " ", "M", "e", "d", "i", "a", " ", "P", "l", "a",
         "y", "e", "r">>>>,
     <<<<"n", "o", "t", "e", "p", "a", "d", "+", "+", ".", "e", "x", "e">>,
       <<"N", "o", "t", "e", "p", "a", "d", "+", "+">>>>,
     <<<<"n", "o", "t", "e", "p", "a", "d", "+", "+">>,
       <<"N", "o", "t", "e", "p", "a", "d", "+", "+">>>>,
     <<<<"p", "y", "c", "h", "a", "r", "m", "6", "4", ".", "e", "x", "e">>,
       <<"P", "y", "C", "h", "a", "r", "m">>>>,
     <<<<"p", "y", "c", "h", "a", "r", "m">>,
       <<"P", "y", "C", "h", "a", "r", "m">>>>,
     <<<<"i", "d", "e", "a", "6", "4", ".", "e", "x", "e">>,
       <<"I", "n", "t", "e", "l", "l", "i", "J", " ", "I", "D", "E", "A">>>>,
     <<<<"i", "d", "e", "a">>,
       <<"I", "n", "t", "e", "l", "l", "i", "J", " ", "I", "D", "E", "A">>>>,
     <<<<"e", "x", "c", "e", "l", ".", "e", "x", "e">>,
       <<"M", "i", "c", "r", "o", "s", "o", "f", "t", " ", "E", "x", "c",
         "e", "l">>>>,
     <<<<"e", "x", "c", "e", "l">>,
       <<"M", "i", "c", "r", "o", "s", "o", "f", "t", " ", "E", "x", "c",
         "e", "l">>>>,
     <<<<"w", "o", "r", "d", ".", "e", "x", "e">>,
       <<"M", "i", "c", "r", "o", "s", "o", "f", "t", " ", "W", "o", "r",
         "d">>>>,
     <<<<"w", "o", "r", "d">>,
       <<"M", "i", "c", "r", "o", "s", "o", "f", "t", " ", "W", "o", "r",
         "d">>>>,
     <<<<"p", "o", "w", "e", "r", "p", "o", "i", "n", "t", ".", "e", "x",
         "e">>,
       <<"M", "i", "c", "r", "o", "s", "o", "f", "t", " ", "P", "o", "w",
         "e", "r", "P", "o", "i", "n", "t">>>>,
     <<<<"p", "o", "w", "e", "r", "p", "o", "i", "n", "t">>,
       <<"M", "i", "c", "r", "o", "s", "o", "f", "t", " ", "P", "o", "w",
         "e", "r", "P", "o", "i", "n", "t">>>>,
     <<<<"o", "u", "t", "l", "o", "o", "k", ".", "e", "x", "e">>,
       <<"M", "i", "c", "r", "o", "s", "o", "f", "t", " ", "O", "u", "t",
         "l", "o", "o", "k">>>>,
     <<<<"o", "u", "t", "l", "o", "o", "k">>,
       <<"M", "i", "c", "r", "o", "s", "o", "f", "t", " ", "O", "u", "t",
         "l", "o", "o", "k">>>>,
     <<<<"d", "i", "s", "c", "o", "r", "d", ".", "e", "x", "e">>,
       <<"D", "i", "s", "c", "o", "r", "d">>>>,
     <<<<"d", "i", "s", "c", "o", "r", "d">>,
       <<"D", "i", "s", "c", "o", "r", "d">>>>,
     <<<<"z", "o", "o", "m", ".", "e", "x", "e">>,
       <<"Z", "o", "o", "m">>>>,
     <<<<"z", "o", "o", "m">>,
       <<"Z", "o", "o", "m">>>>,
     <<<<"n", "o", "t", "i", "o", "n", ".", "e", "x", "e">>,
       <<"N", "o", "t", "i", "o", "n">>>>,
     <<<<"n", "o", "t", "i", "o", "n">>,
       <<"N", "o", "t", "i", "o", "n">>>>,
     <<<<"f", "i", "g", "m", "a", ".", "e", "x", "e">>,
       <<"F", "i", "g", "m", "a">>>>,
     <<<<"f", "i", "g", "m", "a">>,
       <<"F", "i", "g", "m", "a">>>>,
     <<<<"p", "h", "o", "t", "o", "s", "h", "o", "p", ".", "e", "x", "e">>,
       <<"A", "d", "o", "b", "e", " ", "P", "h", "o", "t", "o", "s", "h",
         "o", "p">>>>,
     <<<<"p", "h", "o", "t", "o", "s", "h", "o", "p">>,
       <<"A", "d", "o", "b", "e", " ", "P", "h", "o", "t", "o", "s", "h",
         "o", "p">>>>}

InMapping(key) == \E e \in APP_NAME_MAPPING : e[1] = key
Mapped(key) == (CHOOSE e \in APP_NAME_MAPPING : e[1] = key)[2]

\* re.sub(r'[^a-zA-Z0-9\s]', ' ', raw_name) (line 125).
IsWordChar(c) ==
    c \in Range(LowerCase) \cup Range(UpperCase) \cup Range(DigitChars)
CleanName(s) ==
    [i \in DOMAIN s |->
        IF IsWordChar(s[i]) \/ s[i] \in Whitespace THEN s[i] ELSE " "]

\* str.split(): the words between runs of white space.
RECURSIVE split(_)
split(s) ==
    LET t == lstrip(s)
        n == IF \E i \in DOMAIN t : t[i] \in Whitespace
             THEN (CHOOSE i \in DOMAIN t :
                      /\ t[i] \in Whitespace
                      /\ \A j \in 1..(i - 1) : t[j] \notin Whitespace) - 1
             ELSE Len(t)
    IN  IF t = <<>> THEN <<>>
        ELSE <<SubSeq(t, 1, n)>> \o split(SubSeq(t, n + 1, Len(t)))

\* str.capitalize(): the first character in upper case, the rest in lower.
capitalize(word) ==
    [i \in DOMAIN word |->
        IF i = 1 THEN upper_char(word[i]) ELSE lower_char(word[i])]

\* ' '.join(words)
RECURSIVE join(_)
join(words) ==
    IF words = <<>> THEN <<>>
    ELSE IF Len(words) = 1 THEN words[1]
    ELSE words[1] \o <<" ">> \o join(Tail(words))

CapitalizeWords(s) ==
    LET words == split(s)
    IN  join([i \in DOMAIN words |-> capitalize(words[i])])

\* Line 117-118: the extension is taken off the lower-case name.
WithoutExe(lower_name) ==
    IF endswith(lower_name, Exe) THEN Slice(lower_name, 0 - 4)
    ELSE lower_name

\* Mutant: the words of the name are joined as they are.
Fallback_NoCapitalize(raw_name) == join(split(CleanName(raw_name)))

\* Lines 124-126: the words of the raw name, capitalised.
Fallback(raw_name) == CapitalizeWords(CleanName(raw_name))

\* normalize_app_name (lines 99-126).
NormalizeAppName(raw_name) ==
    IF Falsy(raw_name) THEN Unknown
    ELSE LET lower_name == WithoutExe(strip(lower(raw_name)))
         IN  IF InMapping(lower_name) THEN Mapped(lower_name)
             ELSE Fallback(raw_name)

\* Line 170: the control characters are removed.
RECURSIVE WithoutControl(_)
WithoutControl(s) ==
    IF s = <<>> THEN <<>>
    ELSE IF Head(s) \in ControlChars THEN WithoutControl(Tail(s))
    ELSE <<Head(s)>> \o WithoutControl(Tail(s))

\* Mutant: the title is cut without the dots.
Truncate_NoDots(sanitized, max_length) ==
    IF Len(sanitized) > max_length THEN Slice(sanitized, max_length)
    ELSE sanitized

\* Lines 173-174.
Truncate(sanitized, max_length) ==
    IF Len(sanitized) > max_length
    THEN Slice(sanitized, max_length) \o Dots
    ELSE sanitized

\* sanitize_window_title (lines 155-176).
SanitizeWindowTitle(title, max_length) ==
    IF Falsy(title) THEN <<>>
    ELSE strip(Truncate(WithoutControl(title), max_length))

\* f"{n}" for a non-negative integer.
RECURSIVE Str(_)
Str(n) ==
    IF n < 10 THEN <<DigitChars[n + 1]>>
    ELSE Str(n \div 10) \o <<DigitChars[(n % 10) + 1]>>

\* Mutant: an hour is still counted in minutes.
WithinAnHour_Inclusive(minutes) == minutes <= 60

\* Line 193: `if minutes < 60`.
WithinAnHour(minutes) == minutes < 60

\* format_duration (lines 179-203).
format_duration(seconds) ==
    IF seconds < 60 THEN Str(seconds) \o <<"s">>
    ELSE LET minutes == seconds \div 60
         IN  IF WithinAnHour(minutes)
             THEN LET remaining_seconds == seconds % 60
                  IN  IF remaining_seconds > 0
                      THEN Str(minutes) \o <<"m", " ">>
                           \o Str(remaining_seconds) \o <<"s">>
                      ELSE Str(minutes) \o <<"m">>
             ELSE LET hours == minutes \div 60
                      remaining_minutes == minutes % 60
                  IN  IF remaining_minutes > 0
                      THEN Str(hours) \o <<"h", " ">>
                           \o Str(remaining_minutes) \o <<"m">>
                      ELSE Str(hours) \o <<"h">>

\* ----------------------------------------------------------- the arguments
RECURSIVE SeqsUpTo(_, _)
SeqsUpTo(alphabet, n) ==
    IF n = 0 THEN {<<>>}
    ELSE LET shorter == SeqsUpTo(alphabet, n - 1)
         IN  shorter \cup {Append(s, c) : s \in shorter, c \in alphabet}

NameAlphabet == {"a", "B", "_", " "}
NamedApps ==
    {<<"c", "h", "r", "o", "m", "e", ".", "e", "x", "e">>,
     <<"C", "h", "r", "o", "m", "e", ".", "e", "x", "e">>,
     <<"c", "h", "r", "o", "m", "e">>,
     <<"C", "o", "d", "e", ".", "e", "x", "e">>,
     <<"p", "y", "c", "h", "a", "r", "m", "6", "4", ".", "e", "x", "e">>,
     <<"u", "n", "k", "n", "o", "w", "n", "_", "a", "p", "p", ".", "e", "x",
       "e">>,
     <<"u", "n", "k", "n", "o", "w", "n", "_", "a", "p", "p">>}
ShortNames == SeqsUpTo(NameAlphabet, MaxNameLen)
NameArgs ==
    {NoneArg} \cup NamedApps \cup ShortNames
        \cup {s \o Exe : s \in ShortNames \ {<<>>}}

TitleAlphabet == {"a", " ", "\t", "."}
TitleArgs == {NoneArg} \cup SeqsUpTo(TitleAlphabet, MaxTitleLen)
MaxLengthArgs == (0 - 1)..MaxTitleLen

\* One call of one of the functions.
InitUtils ==
    /\ TrackerInit
    /\ ListenersWork
    /\ script = <<>>
    /\ rt = NoRetry
    /\ cm = NoManager

CallNormalize ==
    \E raw_name \in NameArgs :
        /\ fn = NoCall
        /\ fn' = [op |-> "normalize_app_name", arg |-> raw_name,
                  max_length |-> 0, res |-> NormalizeAppName(raw_name)]
        /\ UNCHANGED <<now, current_app, current_window_title,
                       session_start_time, last_saved_session, is_tracking,
                       is_idle, last_activity_time, running, track, mon, stp,
                       dbCalls, events, log, lastTick, openSet, inputs,
                       probeFailures, script, rt, cm, hb, beats, listeners,
                       starts, idleLog, faults, th, wt, sap, orphans>>

CallSanitize ==
    \E title \in TitleArgs, max_length \in MaxLengthArgs :
        /\ fn = NoCall
        /\ fn' = [op |-> "sanitize_window_title", arg |-> title,
                  max_length |-> max_length,
                  res |-> SanitizeWindowTitle(title, max_length)]
        /\ UNCHANGED <<now, current_app, current_window_title,
                       session_start_time, last_saved_session, is_tracking,
                       is_idle, last_activity_time, running, track, mon, stp,
                       dbCalls, events, log, lastTick, openSet, inputs,
                       probeFailures, script, rt, cm, hb, beats, listeners,
                       starts, idleLog, faults, th, wt, sap, orphans>>

CallFormat ==
    \E seconds \in 0..MaxSeconds :
        /\ fn = NoCall
        /\ fn' = [op |-> "format_duration", arg |-> <<seconds>>,
                  max_length |-> 0, res |-> format_duration(seconds)]
        /\ UNCHANGED <<now, current_app, current_window_title,
                       session_start_time, last_saved_session, is_tracking,
                       is_idle, last_activity_time, running, track, mon, stp,
                       dbCalls, events, log, lastTick, openSet, inputs,
                       probeFailures, script, rt, cm, hb, beats, listeners,
                       starts, idleLog, faults, th, wt, sap, orphans>>

NextUtils == CallNormalize \/ CallSanitize \/ CallFormat

SpecUtils == InitUtils /\ [][NextUtils]_vars

\* C21: normalize_app_name does not depend on letter case or on a trailing
\* ".exe": a name of the mapping gives its display name, another name gives
\* its words without the extension, capitalised, and an empty or missing
\* name gives "UNKNOWN".
C21_NormalizeIgnoresCaseAndExe ==
    fn.op = "normalize_app_name" =>
        LET raw_name == fn.arg
            stem == WithoutExe(lower(raw_name))
        IN  /\ Falsy(raw_name) => fn.res = Unknown
            /\ ~Falsy(raw_name) =>
                  /\ fn.res = NormalizeAppName(lower(raw_name))
                  /\ stem # <<>> => fn.res = NormalizeAppName(stem)
                  /\ InMapping(lower(raw_name)) =>
                        fn.res = Mapped(lower(raw_name))
                  /\ (~InMapping(lower(raw_name)) /\ ~InMapping(stem)) =>
                        fn.res = CapitalizeWords(CleanName(stem))

HasControl(s) == \E i \in DOMAIN s : s[i] \in ControlChars

\* C22 as stated: the result has at most max_length + 3 characters and
\* ends with "..." whenever the title is longer than max_length, equals the
\* title when that is within the bound and has no control character, and
\* is empty for an empty or missing title.
C22_SanitizeAsStated ==
    fn.op = "sanitize_window_title" =>
        /\ Falsy(fn.arg) => fn.res = <<>>
        /\ ~Falsy(fn.arg) =>
              /\ Len(fn.res) <= fn.max_length + 3
              /\ Len(fn.arg) > fn.max_length => endswith(fn.res, Dots)
              /\ (Len(fn.arg) <= fn.max_length /\ ~HasControl(fn.arg)) =>
                    fn.res = fn.arg

\* C22, amended: for max_length >= 0 the result has at most max_length + 3
\* characters and ends with "..." whenever the title without its control
\* characters is longer than max_length; it equals the title without its
\* surrounding white space when the title is within the bound and has no
\* control character; it is empty for an empty or missing title.
C22_SanitizeBounded ==
    fn.op = "sanitize_window_title" =>
        /\ Falsy(fn.arg) => fn.res = <<>>
        /\ (~Falsy(fn.arg) /\ fn.max_length >= 0) =>
              /\ Len(fn.res) <= fn.max_length + 3
              /\ Cardinality({i \in DOMAIN fn.arg :
                                fn.arg[i] \notin ControlChars})
                    > fn.max_length => endswith(fn.res, Dots)
              /\ (Len(fn.arg) <= fn.max_length /\ ~HasControl(fn.arg)) =>
                    /\ fn.res # <<>> =>
                          /\ fn.res[1] \notin Whitespace
                          /\ fn.res[Len(fn.res)] \notin Whitespace
                    /\ \E i \in 0..Len(fn.arg) :
                          /\ SubSeq(fn.arg, i + 1, i + Len(fn.res)) = fn.res
                          /\ \A j \in (1..i) \cup
                                       ((i + Len(fn.res) + 1)..Len(fn.arg)) :
                                fn.arg[j] \in Whitespace

\* A title longer than max_length has been cut, and a title within the
\* bound has lost its surrounding white space.
C22_Witness ==
    /\ fn.op = "sanitize_window_title"
    /\ fn.max_length >= 0
    /\ Len(fn.arg) = MaxTitleLen
    /\ ~HasControl(fn.arg)
    /\ \/ fn.max_length < Len(fn.arg) /\ endswith(fn.res, Dots)
       \/ /\ fn.max_length = Len(fn.arg)
          /\ fn.res # fn.arg
          /\ fn.res # <<>>

\* C23: format_duration of a non-negative integer: below 60 it is "<s>s";
\* from 60 and below 3600 it is "<m>m", or "<m>m <s>s" when the seconds
\* remainder is not zero; from 3600 on it is "<h>h", or "<h>h <m>m" when
\* the minutes remainder is not zero.
C23_FormatDurationByRange ==
    fn.op = "format_duration" =>
        LET seconds == fn.arg[1]
        IN  /\ seconds < 60 => fn.res = Str(seconds) \o <<"s">>
            /\ (60 <= seconds /\ seconds < 3600) =>
                  \E m \in 1..59, s \in 0..59 :
                      /\ seconds = 60 * m + s
                      /\ s = 0 => fn.res = Str(m) \o <<"m">>
                      /\ s # 0 =>
                            fn.res = Str(m) \o <<"m", " ">> \o Str(s)
                                         \o <<"s">>
            /\ seconds >= 3600 =>
                  \E h \in 1..(seconds \div 3600), m \in 0..59,
                     s \in 0..59 :
                      /\ seconds = 3600 * h + 60 * m + s
                      /\ m = 0 => fn.res = Str(h) \o <<"h">>
                      /\ m # 0 =>
                            fn.res = Str(h) \o <<"h", " ">> \o Str(m)
                                         \o <<"m">>

\* 1 h 1 min 5 s has been formatted as "1h 1m".
C23_Witness ==
    /\ fn.op = "format_duration"
    /\ fn.arg = <<3665>>
    /\ fn.res = <<"1", "h", " ", "1", "m">>

\* ===================================================================
\* The order of the broadcasts and of the persisted sessions (Spec)
\* ===================================================================
\* C24: in the broadcast stream no session_end of an earlier session comes
\* after the session_start of a later one.
C24_EndBeforeNextStart ==
    \A i \in SessionStarts, j \in SessionEnds :
        events[j].start < events[i].start => j < i

\* C25: when the idle callback and the tracking loop have both requested
\* the close of the same session, in either order, the session is handed
\* to db_save at most once and its session_end is broadcast at most once.
C25_IdleAndLoopCloseOnce ==
    \A i, j \in Closes :
        (/\ log[i].by = "idle" /\ log[j].by = "loop"
         /\ log[i].app = log[j].app /\ log[i].start = log[j].start) =>
            /\ Cardinality(DbCallsOf(log[i].app, log[i].start)) <= 1
            /\ Cardinality(SessionEndsOf(log[i].app, log[i].start)) <= 1

\* The loop, suspended inside its close, was overtaken by the idle callback
\* closing the same session; the session was persisted and its session_end
\* broadcast.
C25_Witness ==
    \E i, j \in Closes :
        /\ i < j
        /\ log[i].by = "loop" /\ log[j].by = "idle"
        /\ log[i].app = log[j].app /\ log[i].start = log[j].start
        /\ log[i].outcome = "saved" /\ log[j].outcome = "duplicate"
        /\ Cardinality(DbCallsOf(log[i].app, log[i].start)) = 1
        /\ Cardinality(SessionEndsOf(log[i].app, log[i].start)) = 1

MaxRestartTime == 12

\* The foreground app changes a bounded number of times; the awaits of the
\* other tasks may be pending.
RestartSwitch(app, title) ==
    /\ Cardinality({i \in DOMAIN log : log[i].kind = "open"}) < MaxLifeOpens
    /\ TrackSwitch(app, title)

\* start_tracking is called again as soon as stop_tracking has returned.
RestartTick ==
    /\ is_tracking
    /\ stp.pc \in {"idle", "done"}
    /\ TimePasses(MaxRestartTime)

NextRestart ==
    \/ LifeStart
    \/ TrackExit
    \/ TrackIdleSkip
    \/ TrackProbeNone
    \/ \E p \in LifeProbes : RestartSwitch(p[1], p[2])
    \/ \E p \in LifeProbes : TrackSameApp(p[1], p[2])
    \/ TrackDbReturn
    \/ TrackWsReturn
    \/ TrackStartWsReturn
    \/ MonitorSample
    \/ MonitorIdle
    \/ MonDbReturn
    \/ MonWsReturn
    \/ MonIdleWsReturn
    \/ OnActivity
    \/ StopCall
    \/ StopDbReturn
    \/ StopWsReturn
    \/ StopJoin
    \/ RestartTick

\* The tracking loop, the idle monitor and stop_tracking in every
\* interleaving of their awaits, with a later start_tracking.
SpecRestart == Init /\ [][NextRestart]_vars

\* C26: the sessions handed to db_save never overlap in time: a session
\* handed over later starts at or after the end of every session handed
\* over earlier.
C26_PersistedSessionsDisjoint ==
    \A i, j \in DOMAIN dbCalls :
        i < j => dbCalls[j].start >= dbCalls[i].end

\* stop_tracking has persisted a session, and after the restart a later
\* session was persisted.
C26_Witness ==
    /\ starts >= 2
    /\ \E i, j \in Closes :
          /\ i < j
          /\ log[i].by = "stop" /\ log[i].outcome = "saved"
          /\ log[j].outcome = "saved"
          /\ \E k \in DbCallsOf(log[j].app, log[j].start) :
                dbCalls[k].start >= log[i].end

\* ===================================================================
\* Ticks that change no session (Spec)
\* ===================================================================
ProbeNones == {i \in DOMAIN log : log[i].kind = "probe_none"}

\* C27: a non-idle tick whose probe returns None leaves current_app,
\* current_window_title, session_start_time and the dedup key as they are
\* and emits no event; the session goes on, and when it is closed its span
\* covers the time of the failed probe.
C27_ProbeNoneKeepsSession ==
    /\ [][probeFailures' # probeFailures =>
            UNCHANGED <<current_app, current_window_title,
                        session_start_time, last_saved_session, events,
                        dbCalls, openSet>>]_vars
    /\ [](\A i \in ProbeNones : \A j \in Closes :
            (/\ i < j
             /\ log[j].app = log[i].app /\ log[j].start = log[i].start) =>
                /\ log[j].start <= log[i].end
                /\ log[i].end <= log[j].end
                /\ \A k \in DbCallsOf(log[j].app, log[j].start) :
                      /\ dbCalls[k].start <= log[i].end
                      /\ log[i].end <= dbCalls[k].end)

\* A session that was open at a failed probe has been persisted by a later
\* close, with the time of the failed probe inside its span.
C27_Witness ==
    \E i \in ProbeNones : \E j \in Closes :
        /\ i < j
        /\ OpenRec(log[i].app, log[i].start) \in
              {OpenRec(log[o].app, log[o].start) : o \in Opens}
        /\ log[j].app = log[i].app /\ log[j].start = log[i].start
        /\ log[j].outcome = "saved"
        /\ log[j].start < log[i].end /\ log[i].end < log[j].end
        /\ DbCallsOf(log[j].app, log[j].start) # {}

\* The step is a tick that observes the app of the held session with
\* another window title.
TitleChangeTick ==
    /\ lastTick' # lastTick
    /\ lastTick'.at = now
    /\ SessionOpen
    /\ lastTick'.app = current_app
    /\ lastTick'.title # current_window_title

\* C28: a non-idle tick that observes the app of the open session with
\* another window title changes current_window_title only: current_app and
\* session_start_time stay, nothing is persisted and neither session_start
\* nor session_end is emitted.
C28_TitleChangeOnlyChangesTitle ==
    [][TitleChangeTick =>
          /\ current_window_title' = lastTick'.title
          /\ UNCHANGED <<current_app, session_start_time, last_saved_session,
                         dbCalls, events, openSet, log>>]_vars

\* The latest tick found the app of the open session with another title,
\* and the session goes on under the new title.
C28_Witness ==
    /\ SessionOpen
    /\ lastTick.app = current_app
    /\ lastTick.held # None
    /\ lastTick.title # lastTick.held
    /\ current_window_title = lastTick.title
    /\ session_start_time < lastTick.at
    /\ OpenRec(current_app, session_start_time) \in openSet

\* ===================================================================
\* The idle state and the input events (SpecIdle, SpecActivity)
\* ===================================================================
\* C29: while the detector runs, is_user_idle() is true exactly when now
\* minus last_activity_time is at least idle_threshold (looked at between
\* the steps of the monitor: it is asleep and its sample is not due).
C29_IdleIsDerived ==
    (running /\ mon.pc = "sleep" /\ now < mon.wake) =>
        (is_user_idle <=> ThresholdReached(now - last_activity_time))

MaxEvents == 2
MaxActTime == 13

\* Lines 43-44 on the thread of listener l: current_time = time.time();
\* was_idle = self.is_idle.
ActivityRead(l) ==
    /\ running
    /\ ListenersWork
    /\ th[l].pc = "out"
    /\ inputs < MaxEvents
    /\ inputs' = inputs + 1
    /\ th' = [th EXCEPT ![l] = [pc |-> "read", was_idle |-> is_idle,
                                current_time |-> now]]
    /\ UNCHANGED <<script, rt, cm, hb, beats, listeners, starts, faults, fn, wt,
                   sap, orphans,
                   idleLog, lastTick, now, sessionVars, last_saved_session,
                   is_tracking, idleVars, running, track, mon, stp, dbCalls,
                   events, log, openSet, probeFailures>>

\* Line 46: self.last_activity_time = current_time.
ActivityStamp(l) ==
    /\ th[l].pc = "read"
    /\ last_activity_time' = th[l].current_time
    /\ th' = [th EXCEPT ![l].pc = "stamped"]
    /\ UNCHANGED <<script, rt, cm, hb, beats, listeners, starts, faults, fn, wt,
                   sap, orphans,
                   idleLog, lastTick, now, sessionVars, last_saved_session,
                   is_tracking, is_idle, running, track, mon, stp, dbCalls,
                   events, log, openSet, envVars>>

\* Lines 49-56: when was_idle, is_idle is cleared and active_callback is
\* called.
ActivityNotify(l) ==
    /\ th[l].pc = "stamped"
    /\ IF th[l].was_idle
       THEN /\ is_idle' = FALSE
            /\ idleLog' = Append(idleLog, IdleRec("active"))
       ELSE UNCHANGED <<is_idle, idleLog>>
    /\ th' = [th EXCEPT ![l].pc = "out"]
    /\ UNCHANGED <<script, rt, cm, hb, beats, listeners, starts, faults, fn, wt,
                   sap, orphans,
                   lastTick, now, sessionVars, last_saved_session,
                   is_tracking, last_activity_time, running, track, mon, stp,
                   dbCalls, events, log, openSet, envVars>>

NextActivity ==
    \/ FirstStart
    \/ TrackIdleSkip
    \/ TrackSwitch(IdleProbe[1], IdleProbe[2])
    \/ TrackSameApp(IdleProbe[1], IdleProbe[2])
    \/ TrackStartWsReturn
    \/ MonitorSample
    \/ MonitorIdle
    \/ MonDbReturn
    \/ MonWsReturn
    \/ MonIdleWsReturn
    \/ \E l \in Listeners : ActivityRead(l)
    \/ \E l \in Listeners : ActivityStamp(l)
    \/ \E l \in Listeners : ActivityNotify(l)
    \/ TimePasses(MaxActTime)

\* The detector with the threads of its two listeners inside _on_activity.
SpecActivity == Init /\ [][NextActivity]_vars

ActiveCalls == {i \in DOMAIN idleLog : idleLog[i].kind = "active"}

\* C30: each idle-to-active transition fires the on_active notification
\* once, also when input events arrive on both listener threads: after an
\* idle callback and before the next one there is at most one
\* notification, and an input event that found the user active fires none.
C30_OnActiveOncePerTransition ==
    /\ \A i, j \in ActiveCalls :
          i < j => \E k \in IdleCalls : i < k /\ k < j
    /\ \A i \in ActiveCalls : \E k \in IdleCalls : k < i

\* ---------------------------------------------------------------------
\* The records handed to db_save: spans and durations
\* ---------------------------------------------------------------------

\* C31: every session handed to db_save has start_time < end_time and a
\* duration_sec that is the whole-second floor of end_time - start_time
\* (duration_sec seconds fit into the span, duration_sec + 1 do not) and
\* is at least 1.
C31_SavedSpanAndDuration ==
    \A k \in DOMAIN dbCalls :
       /\ dbCalls[k].start < dbCalls[k].end
       /\ dbCalls[k].duration_sec >= 1
       /\ dbCalls[k].duration_sec * Res <= dbCalls[k].end - dbCalls[k].start
       /\ dbCalls[k].end - dbCalls[k].start < (dbCalls[k].duration_sec + 1) * Res

\* C31 witness: db_save has received a session whose span is not a whole
\* number of seconds, so that the floor has cut a fraction off.
C31_Witness ==
    \E k \in DOMAIN dbCalls :
       /\ (dbCalls[k].end - dbCalls[k].start) % Res # 0
       /\ dbCalls[k].duration_sec >= 1

\* ---------------------------------------------------------------------
\* save_usage_with_retry: commits, rollbacks and backoff waits
\* ---------------------------------------------------------------------

\* C32: one call commits at most one usage record, every failed attempt is
\* rolled back, a call that has returned True has committed exactly one
\* record and a call that has returned False has committed none.
C32_OneCommitPerCall ==
    /\ Len(rt.commits) <= 1
    /\ rt.rollbacks = Cardinality({i \in 1..rt.tries :
                                      i <= Len(rt.failures) /\ rt.failures[i] # Ok})
    /\ rt.pc = "done" =>
          IF rt.result THEN Len(rt.commits) = 1 ELSE rt.commits = <<>>

\* The attempts made so far that failed with a lock-busy error.
LockBusyTries ==
    {i \in 1..rt.tries :
        /\ i <= Len(rt.failures)
        /\ rt.failures[i].raises = "OperationalError"
        /\ rt.failures[i].msg \in LockMessages}

\* C33: the backoff wait after the n-th consecutive lock-busy failure is
\* 100 * 2^(n-1) ms, that is 100 ms, 200 ms, 400 ms, and no backoff wait is
\* made after a failure that is not lock-busy: the waits of a call are as
\* many as its lock-busy failures.
C33_BackoffDoubles ==
    /\ Len(rt.waits) = Cardinality(LockBusyTries)
    /\ Len(rt.waits) <= 3
    /\ \A n \in DOMAIN rt.waits : rt.waits[n] = <<100, 200, 400>>[n]

\* C33 witness: a call that has returned after three lock-busy failures and
\* the three waits.
C33_Witness ==
    /\ rt.pc = "done"
    /\ Cardinality(LockBusyTries) = 3
    /\ rt.waits = <<100, 200, 400>>

\* ===================================================================
\* ScreenTimeAnalyzerPro-v2/backend/tracker.py: WindowTracker (SpecWindowTracker)
\* ===================================================================
MaxWtTime == 10
MaxWtRaises == 1

\* What the probe returns: the process name without ".exe", and the title.
WtProbes == {<<"chrome", "w1">>, <<"chrome", "w2">>, <<"Code", "w1">>}

\* IdleDetector.is_idle(): (time.time() - self.last_activity) > self.idle_threshold
WtIsIdle == wt.now - wt.last_activity > IdleThreshold * Res

\* `if self.current_app and self.session_start`
WtSessionOpen == TruthyStr(wt.current_app) /\ TruthyTime(wt.session_start)

\* save_session goes on past `if duration < 1: return`.
WtSaves(start, end) == IntSec(end - start) >= 1

\* save_session up to its await of ws_callback: db_callback has been called
\* and has returned (save_usage_record of main.py awaits nothing), the
\* session_end broadcast has begun.
WtSaveSession(by, end) ==
    [wt EXCEPT
       !.dbCalls = Append(@, [app |-> wt.current_app, start |-> wt.session_start,
                              end |-> end, by |-> by,
                              duration_sec |-> IntSec(end - wt.session_start)]),
       !.events = Append(@, [event |-> "session_end", app |-> wt.current_app,
                             at |-> end])]

WtTickRec(kind) ==
    [kind |-> kind, at |-> wt.now, idle |-> WtIsIdle, held |-> wt.current_app,
     start |-> wt.session_start]

\* `await asyncio.sleep(1)` at the end of a tick.
WtSleep == [pc |-> "sleep", wake |-> wt.now + Res, next |-> NoWindowTracker.track.next]

\* Lines 284-298: the fields take the new session and session_start is
\* broadcast.
WtOpen(w, app, window, time) ==
    [w EXCEPT !.current_app = app, !.current_window = window,
              !.session_start = time,
              !.events = Append(@, [event |-> "session_start", app |-> app,
                                    at |-> time]),
              !.track.pc = "start_ws"]

\* start(): lines 334-341.
WtStart ==
    /\ ~wt.is_tracking
    /\ wt.stop = "idle"
    /\ wt.track.pc = "none"
    /\ wt' = [wt EXCEPT !.is_tracking = TRUE,
                        !.track = [WtSleep EXCEPT !.wake = wt.now]]
    /\ UNCHANGED <<baseVars, orphans, sap>>

\* The loop is at `while self.is_tracking` with its sleep over.
WtDue == wt.track.pc = "sleep" /\ wt.now >= wt.track.wake

\* Lines 246-260: a tick on which the idle detector reports idle.
WtIdleTick ==
    /\ WtDue
    /\ wt.is_tracking
    /\ WtIsIdle
    /\ wt' =
         IF ~TruthyStr(wt.current_app)
         THEN [wt EXCEPT !.track = WtSleep, !.lastTick = WtTickRec("idle")]
         ELSE IF WtSaves(wt.session_start, wt.now)
         THEN [WtSaveSession("idle", wt.now) EXCEPT
                 !.track.pc = "idle_ws", !.lastTick = WtTickRec("idle")]
         ELSE [wt EXCEPT !.current_app = None, !.current_window = None,
                         !.session_start = NoTime, !.track = WtSleep,
                         !.lastTick = WtTickRec("idle")]
    /\ UNCHANGED <<baseVars, orphans, sap>>

\* Lines 255-260: ws_callback has returned inside the idle close.
WtIdleWsReturn ==
    /\ wt.track.pc = "idle_ws"
    /\ wt' = [wt EXCEPT !.current_app = None, !.current_window = None,
                        !.session_start = NoTime, !.track = WtSleep]
    /\ UNCHANGED <<baseVars, orphans, sap>>

\* Lines 306-308: ws_callback raises inside the loop (ConnectionManager.broadcast
\* of main.py raises ValueError when the connection it removes is already
\* removed); `except Exception` logs it and sleeps.
WtWsRaises ==
    /\ wt.track.pc \in {"idle_ws", "switch_ws", "start_ws"}
    /\ wt.raises < MaxWtRaises
    /\ wt' = [wt EXCEPT !.track = WtSleep, !.raises = @ + 1]
    /\ UNCHANGED <<baseVars, orphans, sap>>

\* Lines 263-266: the probe returns None.
WtProbeNone ==
    /\ WtDue
    /\ wt.is_tracking
    /\ ~WtIsIdle
    /\ wt' = [wt EXCEPT !.track = WtSleep]
    /\ UNCHANGED <<baseVars, orphans, sap>>

\* Lines 268-298: the probe returns another app than the one held.
WtSwitch(app, window) ==
    /\ WtDue
    /\ wt.is_tracking
    /\ ~WtIsIdle
    /\ app # wt.current_app
    /\ wt' =
         IF WtSessionOpen /\ WtSaves(wt.session_start, wt.now)
         THEN [WtSaveSession("loop", wt.now) EXCEPT
                 !.track.pc = "switch_ws",
                 !.track.next = [app |-> app, window |-> window, time |-> wt.now],
                 !.lastTick = WtTickRec("probe")]
         ELSE [WtOpen(wt, app, window, wt.now) EXCEPT
                 !.lastTick = WtTickRec("probe")]
    /\ UNCHANGED <<baseVars, orphans, sap>>

\* Lines 283-298: ws_callback has returned inside the close of a switch.
WtSwitchWsReturn ==
    /\ wt.track.pc = "switch_ws"
    /\ wt' = WtOpen(wt, wt.track.next.app, wt.track.next.window,
                    wt.track.next.time)
    /\ UNCHANGED <<baseVars, orphans, sap>>

\* Line 304: the session_start broadcast has returned.
WtStartWsReturn ==
    /\ wt.track.pc = "start_ws"
    /\ wt' = [wt EXCEPT !.track = WtSleep]
    /\ UNCHANGED <<baseVars, orphans, sap>>

\* Lines 301-304: the probe returns the app held.
WtSameApp(app, window) ==
    /\ WtDue
    /\ wt.is_tracking
    /\ ~WtIsIdle
    /\ app = wt.current_app
    /\ wt' = [wt EXCEPT !.current_window = window, !.track = WtSleep,
                        !.lastTick = WtTickRec("probe")]
    /\ UNCHANGED <<baseVars, orphans, sap>>

\* Line 243: `while self.is_tracking` is false, the loop returns.
WtExit ==
    /\ WtDue
    /\ ~wt.is_tracking
    /\ wt' = [wt EXCEPT !.track.pc = "done"]
    /\ UNCHANGED <<baseVars, orphans, sap>>

\* Lines 358-363: track_task.cancel() ends a task that is suspended.
WtCancel(w) ==
    [w EXCEPT !.stop = "done",
              !.track.pc = IF @ = "done" THEN @ ELSE "cancelled"]

\* stop(): lines 347-356, up to the await of ws_callback inside
\* save_session, or to the end when nothing is saved.
WtStop ==
    /\ wt.is_tracking
    /\ wt.stop = "idle"
    /\ wt' =
         IF WtSessionOpen /\ WtSaves(wt.session_start, wt.now)
         THEN [WtSaveSession("stop", wt.now) EXCEPT
                 !.is_tracking = FALSE, !.stop = "ws"]
         ELSE WtCancel([wt EXCEPT !.is_tracking = FALSE])
    /\ UNCHANGED <<baseVars, orphans, sap>>

\* Lines 358-365: ws_callback has returned inside stop().
WtStopWsReturn ==
    /\ wt.stop = "ws"
    /\ wt' = WtCancel(wt)
    /\ UNCHANGED <<baseVars, orphans, sap>>

\* ws_callback raises inside stop(): the exception leaves stop() and the
\* tasks are not cancelled.
WtStopWsRaises ==
    /\ wt.stop = "ws"
    /\ wt.raises < MaxWtRaises
    /\ wt' = [wt EXCEPT !.stop = "raised", !.raises = @ + 1]
    /\ UNCHANGED <<baseVars, orphans, sap>>

\* IdleDetector.on_activity, on a listener thread.
WtOnActivity ==
    /\ wt.is_tracking
    /\ wt.inputs < MaxInputs
    /\ wt' = [wt EXCEPT !.last_activity = wt.now, !.inputs = @ + 1]
    /\ UNCHANGED <<baseVars, orphans, sap>>

\* Time passes unless the loop's sleep is over.
WtTimePasses ==
    /\ wt.now < MaxWtTime
    /\ ~WtDue
    /\ wt' = [wt EXCEPT !.now = @ + 1]
    /\ UNCHANGED <<baseVars, orphans, sap>>

NextWindowTracker ==
    \/ WtStart
    \/ WtIdleTick
    \/ WtIdleWsReturn
    \/ WtWsRaises
    \/ WtProbeNone
    \/ \E p \in WtProbes : WtSwitch(p[1], p[2])
    \/ WtSwitchWsReturn
    \/ WtStartWsReturn
    \/ \E p \in WtProbes : WtSameApp(p[1], p[2])
    \/ WtExit
    \/ WtStop
    \/ WtStopWsReturn
    \/ WtStopWsRaises
    \/ WtOnActivity
    \/ WtTimePasses

SpecWindowTracker == Init /\ [][NextWindowTracker]_vars

\* C34: on a tick where the idle detector reports idle and a session is
\* open, the session is closed with end_time = the tick's time, handed to
\* db_callback, session_end is emitted and no session is held when the tick
\* is over; the probe is consulted only on ticks that are not idle.
C34_IdleTickCloses ==
    /\ (wt.lastTick.kind = "idle" /\ wt.lastTick.held # None
           /\ wt.track.pc = "sleep") =>
          /\ wt.current_app = None
          /\ wt.session_start = NoTime
          /\ \E k \in DOMAIN wt.dbCalls :
                /\ wt.dbCalls[k].app = wt.lastTick.held
                /\ wt.dbCalls[k].start = wt.lastTick.start
                /\ wt.dbCalls[k].end = wt.lastTick.at
          /\ \E k \in DOMAIN wt.events :
                /\ wt.events[k].event = "session_end"
                /\ wt.events[k].app = wt.lastTick.held
                /\ wt.events[k].at = wt.lastTick.at
    /\ wt.lastTick.kind = "probe" => ~wt.lastTick.idle

\* C35: db_callback is invoked at most once per opened session (app and
\* session_start), for every interleaving of tracking_loop and stop() and
\* whether or not a broadcast raises during the close.
C35_DbCallbackOncePerSession ==
    \A i, j \in DOMAIN wt.dbCalls :
       (/\ wt.dbCalls[i].app = wt.dbCalls[j].app
        /\ wt.dbCalls[i].start = wt.dbCalls[j].start) => i = j

\* ===================================================================
\* screentime-analyzer-pro/backend/app/services/realtime_tracker.py:
\* RealtimeTracker (SpecSap)
\* ===================================================================
MaxSapTime == 6

SapClients == {"c1", "c2"}
SapProbes == {<<"chrome.exe", "w1">>, <<"Code.exe", "w1">>}

\* `if self.current_app and self.start_time`
SapSessionOpen == TruthyStr(sap.current_app) /\ TruthyTime(sap.start_time)

\* save_session: lines 147-176; it awaits nothing, so the record is
\* committed before the caller goes on.  start_time is read from the field.
SapSaveSession(s, by) ==
    [s EXCEPT !.saves = Append(@, [app |-> s.current_app,
                                   start |-> s.start_time, end |-> s.now,
                                   by |-> by])]

\* `await asyncio.sleep(1)`
SapSleep == [NoSap.track EXCEPT !.pc = "sleep", !.wake = sap.now + Res]

\* broadcast_to_clients, lines 180-187: return at once without clients,
\* else suspend in the send to the first client the iteration yields.
SapBroadcast(s, pc, c) ==
    IF s.websocket_clients = {} THEN s
    ELSE [s EXCEPT !.track.pc = pc,
                   !.track.size = Cardinality(s.websocket_clients),
                   !.track.left = s.websocket_clients \ {c},
                   !.track.cur = c, !.track.bad = {}]

\* The first client an iteration over the set may yield.
SapFirst(s) == IF s.websocket_clients = {} THEN {None} ELSE s.websocket_clients

\* Lines 232-243: the fields take the new session, start_time is read from
\* the clock now, and session_start is broadcast; line 262 follows.
SapOpen(s, app, title, c) ==
    SapBroadcast([s EXCEPT !.current_app = app,
                           !.current_window_title = title,
                           !.start_time = s.now, !.track = SapSleep],
                 "start_send", c)

\* start_tracking: lines 272-277.
SapStart ==
    /\ ~sap.is_tracking
    /\ sap.track.pc = "none"
    /\ sap' = [sap EXCEPT !.is_tracking = TRUE,
                          !.track = [SapSleep EXCEPT !.wake = sap.now]]
    /\ UNCHANGED <<baseVars, orphans, wt>>

\* The loop is at `while self.is_tracking` with its sleep over.
SapDue == sap.track.pc = "sleep" /\ sap.now >= sap.track.wake /\ sap.is_tracking

\* Lines 202-204, 262: the probe returns None.
SapProbeNone ==
    /\ SapDue
    /\ sap' = [sap EXCEPT !.track = SapSleep]
    /\ UNCHANGED <<baseVars, orphans, wt>>

\* Lines 209-243: the probe returns another app than the one held.
SapSwitch(app, title) ==
    /\ SapDue
    /\ app # sap.current_app
    /\ \E c \in SapFirst(sap) :
         sap' =
           IF SapSessionOpen /\ sap.websocket_clients # {}
           THEN [SapBroadcast(SapSaveSession(sap, "loop"), "end_send", c)
                   EXCEPT !.track.next = [app |-> app, title |-> title]]
           ELSE IF SapSessionOpen
           THEN SapOpen(SapSaveSession(sap, "loop"), app, title, c)
           ELSE SapOpen(sap, app, title, c)
    /\ UNCHANGED <<baseVars, orphans, wt>>

\* Lines 247-262: the probe returns the app held; duration_update is
\* broadcast.
SapSameApp(app, title) ==
    /\ SapDue
    /\ app = sap.current_app
    /\ \E c \in SapFirst(sap) :
         sap' = IF TruthyTime(sap.start_time)
                THEN SapBroadcast([sap EXCEPT !.track = SapSleep],
                                  "update_send", c)
                ELSE [sap EXCEPT !.track = SapSleep]
    /\ UNCHANGED <<baseVars, orphans, wt>>

SapSending == sap.track.pc \in {"end_send", "start_send", "update_send"}

\* Line 185: the iteration finds that the set has changed its size and
\* raises RuntimeError.
SapSizeChanged == Cardinality(sap.websocket_clients) # sap.track.size

\* Lines 185-193 and their continuation in track_loop: the send has
\* returned or raised (failed); the iteration raises RuntimeError, which
\* leaves broadcast_to_clients and is caught at lines 264-266, or goes on
\* to the next client, or ends, the failed clients are removed and the
\* tick goes on.
SapSendReturn(failed) ==
    /\ SapSending
    /\ LET bad == IF failed THEN sap.track.bad \cup {sap.track.cur}
                  ELSE sap.track.bad
           rest == sap.track.left \cap sap.websocket_clients
           over == [sap EXCEPT !.websocket_clients = @ \ bad]
       IN  IF SapSizeChanged
           THEN sap' = [sap EXCEPT !.track = SapSleep]
           ELSE IF rest # {}
           THEN \E c \in rest :
                  sap' = [sap EXCEPT !.track.cur = c, !.track.bad = bad,
                                     !.track.left = @ \ {c}]
           ELSE IF sap.track.pc = "end_send"
           THEN \E c \in SapFirst(over) :
                  sap' = SapOpen(over, sap.track.next.app,
                                 sap.track.next.title, c)
           ELSE sap' = [over EXCEPT !.track = SapSleep]
    /\ UNCHANGED <<baseVars, orphans, wt>>

\* stop_tracking: lines 282-307.  save_session awaits nothing; the
\* cancelled task ends at its await (CancelledError is not an Exception).
SapStop ==
    /\ sap.is_tracking
    /\ LET s == IF SapSessionOpen THEN SapSaveSession(sap, "stop") ELSE sap
       IN  sap' = [s EXCEPT !.is_tracking = FALSE, !.current_app = None,
                            !.current_window_title = None,
                            !.start_time = NoTime,
                            !.track = [NoSap.track EXCEPT !.pc = "cancelled"],
                            !.stops = @ + 1]
    /\ UNCHANGED <<baseVars, orphans, wt>>

\* add_websocket_client: lines 311-313.
SapAddClient(c) ==
    /\ c \notin sap.websocket_clients
    /\ sap' = [sap EXCEPT !.websocket_clients = @ \cup {c}]
    /\ UNCHANGED <<baseVars, orphans, wt>>

\* remove_websocket_client: lines 316-318.
SapRemoveClient(c) ==
    /\ c \in sap.websocket_clients
    /\ sap' = [sap EXCEPT !.websocket_clients = @ \ {c}]
    /\ UNCHANGED <<baseVars, orphans, wt>>

\* Time passes unless the loop's sleep is over.
SapTimePasses ==
    /\ sap.now < MaxSapTime
    /\ ~SapDue
    /\ sap' = [sap EXCEPT !.now = @ + 1]
    /\ UNCHANGED <<baseVars, orphans, wt>>

NextSap ==
    \/ SapStart
    \/ SapProbeNone
    \/ \E p \in SapProbes : SapSwitch(p[1], p[2])
    \/ \E p \in SapProbes : SapSameApp(p[1], p[2])
    \/ \E failed \in BOOLEAN : SapSendReturn(failed)
    \/ SapStop
    \/ \E c \in SapClients : SapAddClient(c)
    \/ \E c \in SapClients : SapRemoveClient(c)
    \/ SapTimePasses

SpecSap == Init /\ [][NextSap]_vars

\* C36: each opened session (app and start_time) is saved to the database
\* at most once, for every interleaving of track_loop, stop_tracking and
\* WebSocket clients being added or removed while broadcast_to_clients is
\* suspended in a send.
C36_SessionSavedOnce ==
    \A i, j \in DOMAIN sap.saves :
       (/\ sap.saves[i].app = sap.saves[j].app
        /\ sap.saves[i].start = sap.saves[j].start) => i = j

\* ===================================================================
\* The readers of the session state: _heartbeat_loop and
\* get_current_session (SpecStatus)
\* ===================================================================
MaxStatusTime == 13

\* A status query (main.py lines 273, 367 and 402):
\* get_current_session() is called and returns its view.
GetCurrentSession ==
    /\ fn.op # "get_current_session" \/ fn.res # get_current_session
    /\ fn' = [op |-> "get_current_session", arg |-> <<>>, max_length |-> 0,
              res |-> get_current_session]
    /\ UNCHANGED <<now, current_app, current_window_title,
                   session_start_time, last_saved_session, is_tracking,
                   is_idle, last_activity_time, running, track, mon, stp,
                   dbCalls, events, log, lastTick, openSet, inputs,
                   probeFailures, script, rt, cm, hb, beats, listeners,
                   starts, idleLog, faults, th, wt, sap, orphans>>

NextStatus ==
    \/ FirstStart
    \/ TrackIdleSkip
    \/ \E p \in LifeProbes : LifeSwitch(p[1], p[2])
    \/ \E p \in LifeProbes : LoopsQuiet /\ TrackSameApp(p[1], p[2])
    \/ TrackDbReturn
    \/ TrackWsReturn
    \/ TrackStartWsReturn
    \/ LoopsQuiet /\ MonitorSample
    \/ LoopsQuiet /\ MonitorIdle
    \/ MonDbReturn
    \/ MonWsReturn
    \/ MonIdleWsReturn
    \/ LoopsQuiet /\ HeartbeatBeat
    \/ LoopsQuiet /\ HeartbeatSkip
    \/ HeartbeatWsReturn
    \/ GetCurrentSession
    \/ LoopsQuiet /\ HbNotDue /\ TimePasses(MaxStatusTime)

\* The tracker with its heartbeat loop and the status queries.
SpecStatus == Init /\ [][NextStatus]_vars

\* A step of the heartbeat loop; a status query.
HeartbeatStep == hb.pc \in {"sleep", "ws"} /\ hb' # hb /\ is_tracking' = is_tracking
StatusStep == fn' # fn /\ fn'.op = "get_current_session"

\* C37: the heartbeat loop and get_current_session() only read the
\* open-session state: no step of either changes current_app,
\* current_window_title, session_start_time or the dedup key.
C37_ReadersOnlyRead ==
    [][(HeartbeatStep \/ StatusStep) =>
          UNCHANGED <<current_app, current_window_title, session_start_time,
                      last_saved_session>>]_vars

\* C37 witness: a heartbeat has been broadcast for the session held and a
\* status query has returned the view of that session.
C37_Witness ==
    /\ beats # <<>>
    /\ SessionOpen
    /\ beats[Len(beats)].start = session_start_time
    /\ fn.op = "get_current_session"
    /\ fn.res # NoSessionView
    /\ fn.res.start_time = session_start_time

\* ===================================================================
\* start_tracking and stop_tracking in any order (SpecStartStop)
\* ===================================================================
MaxStartStopTime == 13
MaxIgnored == 1

\* The task is running: created and neither ended nor cancelled.
Live(task) == task.pc \notin {"none", "exited", "cancelled"}

\* Lines 393-405: start_tracking past `if self.is_tracking`, whatever
\* stop_tracking is doing.  track_task and heartbeat_task are assigned the
\* new tasks; a task they referred to that is still running runs on
\* without a reference.
StartCall ==
    /\ starts < MaxStarts
    /\ ~is_tracking
    /\ is_tracking' = TRUE
    /\ IF DetectorStarts
       THEN /\ running' = TRUE
            /\ mon' = [MonSleep EXCEPT !.wake = now]
       ELSE UNCHANGED <<running, mon>>
    /\ orphans' = [orphans EXCEPT
                     !.track = @ + (IF Live(track) THEN 1 ELSE 0),
                     !.hb = @ + (IF Live(hb) THEN 1 ELSE 0)]
    /\ track' = [TrackSleep EXCEPT !.wake = now]
    /\ hb' = HbSleep
    /\ starts' = starts + 1
    /\ lastTick' = NoTick
    /\ UNCHANGED <<script, rt, cm, beats, listeners, idleLog, faults, fn, th,
                   wt, sap, now, sessionVars, last_saved_session, idleVars,
                   stp, dbCalls, events, log, openSet, envVars>>

\* Lines 389-391: start_tracking while is_tracking is set returns.
StartIgnored ==
    /\ is_tracking
    /\ orphans.ignored < MaxIgnored
    /\ orphans' = [orphans EXCEPT !.ignored = @ + 1]
    /\ UNCHANGED <<baseVars, wt, sap>>

\* A loop without a reference finds is_tracking false at its `while` and
\* returns.  What such a loop does to the session is left out here.
OrphanExit ==
    /\ ~is_tracking
    /\ \E l \in {"track", "hb"} :
          /\ orphans[l] > 0
          /\ orphans' = [orphans EXCEPT ![l] = @ - 1]
    /\ UNCHANGED <<baseVars, wt, sap>>

NextStartStop ==
    \/ StartCall
    \/ StartIgnored
    \/ OrphanExit
    \/ TrackExit
    \/ TrackIdleSkip
    \/ \E p \in LifeProbes : LifeSwitch(p[1], p[2])
    \/ \E p \in LifeProbes : LoopsQuiet /\ TrackSameApp(p[1], p[2])
    \/ TrackDbReturn
    \/ TrackWsReturn
    \/ TrackStartWsReturn
    \/ LoopsQuiet /\ MonitorSample
    \/ LoopsQuiet /\ MonitorIdle
    \/ MonDbReturn
    \/ MonWsReturn
    \/ MonIdleWsReturn
    \/ LoopsQuiet /\ HeartbeatBeat
    \/ LoopsQuiet /\ HeartbeatSkip
    \/ HeartbeatWsReturn
    \/ StopCall
    \/ StopDbReturn
    \/ StopWsReturn
    \/ StopJoin
    \/ LoopsQuiet /\ HbNotDue /\ stp.pc # "join" /\ TimePasses(MaxStartStopTime)

SpecStartStop == Init /\ [][NextStartStop]_vars

TrackingLoops == (IF Live(track) THEN 1 ELSE 0) + orphans.track
HeartbeatLoops == (IF Live(hb) THEN 1 ELSE 0) + orphans.hb

\* C38: for every sequence and interleaving of start_tracking and
\* stop_tracking calls, at most one tracking loop and at most one
\* heartbeat loop are running, whenever is_tracking is true the idle
\* detector is running, and a start_tracking while already tracking
\* creates no loop.
C38_OneLoopEach ==
    /\ [](/\ TrackingLoops <= 1
          /\ HeartbeatLoops <= 1
          /\ is_tracking => running)
    /\ [][orphans'.ignored # orphans.ignored =>
             UNCHANGED <<track, hb, mon, running>>]_vars

====
